---- MODULE Spec2Model ----
(***************************************************************************)
(* SilentCast acoustic modem: the modulator (AudioUtils.transmitText, the  *)
(* Transmitter component) and the demodulator (the Receiver component's    *)
(* listen loop).  The Receiver exists in two variants, both modelled and   *)
(* driven by the same session: the framed one (preamble, terminator,       *)
(* debounce) and the unframed one (byte-boundary search, buffer cap).      *)
(*                                                                         *)
(* A JavaScript string is a sequence of UTF-16 code units (naturals); a    *)
(* binary string ('0'/'1' characters) is a sequence over {0, 1}.           *)
(***************************************************************************)
EXTENDS Integers, Sequences, FiniteSets, TLC

(***************************************************************************)
(* Bounds of the model.                                                    *)
(***************************************************************************)
MaxLen == 3          \* longest text handed to the transmitter
MaxBits == 5         \* longest bit buffer under free symbol input
MaxEmitted == 1      \* symbols with a bit are heard until this many messages
ExtraSymbols == 1    \* symbols heard after the replayed frame has ended
GapCap == 300        \* elapsed times are tracked exactly up to this many ms
MaxStreams == 2      \* listen sessions started in one run
MaxTrailing == 7     \* bits that follow the whole characters of a candidate buffer
MaxCounted == 2      \* 'sent' entries of one completion are counted up to this many
MaxPending == 1      \* calls of startListening waiting for the microphone at one time

(***************************************************************************)
(* Program constants.                                                      *)
(***************************************************************************)
BIT_DURATION_MS == 200        \* BIT_DURATION = 0.2 s
LeadingSilence == 500         \* silentSamples = 0.5 s
FIRST_BIT_DURATION_MS == 100  \* first definition: BIT_DURATION = 0.1 s
BitDurationShift == 0         \* the double 0.2 is C * 2^-54
FirstBitDurationShift == 1    \* the double 0.1 is C * 2^-55
ConsecutiveWindow == 150      \* re-detection window of the listen loop
HighQuality == 80             \* quality that bypasses the confirmation
NoSignalWindow == 200         \* window after which NONE resets the counter
ResetDelay == 3000            \* setTimeout delay of the post-message reset
ReadyDelay == 2000            \* setTimeout delay of 'Ready to transmit' after a completion
ErrorDelay == 3000            \* setTimeout delay of 'Ready to transmit' after an error
BufferCap == 200              \* configured cap of the bit buffer
CapDrop == 50                 \* bits dropped from the front when the cap is hit
DedupeWindow == 90            \* unframed variant: minimum gap between two bits
MinQuality == 15              \* unframed variant: minimum signal quality
MinDecodeBits == 16           \* unframed variant: bits needed to try a decode
MaxStart == 8                 \* unframed variant: last start offset tried
SAMPLE_RATE == 44100          \* samples per second
FREQ_0 == 2000                \* frequency of bit 0, Hz
FREQ_1 == 5000                \* frequency of bit 1, Hz
FIRST_FREQ_0 == 17500         \* first definition: frequency of bit 0, Hz
FIRST_FREQ_1 == 18500         \* first definition: frequency of bit 1, Hz
FFT_SIZE == 8192              \* analyser.fftSize
windowSize == 3               \* bins averaged on each side of a carrier bin
NoiseMargin == 15             \* dynamic threshold: noise level plus this
EnergyFloor == 30             \* dynamic threshold: at least this
DefaultNoise == 50            \* noise level when no bin is counted as noise
QualityGain == 20             \* quality points per unit of signal-to-noise above 1
MinDiff == 40                 \* least difference of the two energies for a bit
FrameInterval == 16           \* ms between two animation frames
startMarker == <<1, 1, 0, 0>> \* '1100'
endMarker == <<0, 0, 1, 1>>   \* '0011'

Bit == {0, 1}

(***************************************************************************)
(* String helpers (JavaScript semantics).                                  *)
(***************************************************************************)
Min(a, b) == IF a < b THEN a ELSE b

RECURSIVE pow2(_)
pow2(n) == IF n = 0 THEN 1 ELSE 2 * pow2(n - 1)

\* Math.floor(Math.log2(n)) of an integer n >= 1
RECURSIVE exponentOf(_)
exponentOf(n) == IF n < 2 THEN 0 ELSE 1 + exponentOf(n \div 2)

\* String.prototype.substring(from) and substring(from, to), 0-based.
substringFrom(s, from) == SubSeq(s, Min(from, Len(s)) + 1, Len(s))
substring(s, from, to) == SubSeq(s, Min(from, Len(s)) + 1, Min(to, Len(s)))

\* String.prototype.indexOf: first 0-based index of pat in s, or -1.
indexOf(s, pat) ==
  LET hits == {i \in 0..(Len(s) - Len(pat)) : SubSeq(s, i + 1, i + Len(pat)) = pat}
  IN IF hits = {} THEN -1 ELSE CHOOSE i \in hits : \A j \in hits : i <= j

\* Number.prototype.toString(2): binary digits, most significant first,
\* no leading zeros ("0" for 0).
RECURSIVE toString2(_)
toString2(n) == IF n < 2 THEN <<n>> ELSE Append(toString2(n \div 2), n % 2)

\* String.prototype.padStart(width, '0').
RECURSIVE padStart(_, _)
padStart(s, width) == IF Len(s) >= width THEN s ELSE padStart(<<0>> \o s, width)

\* parseInt(chunk, 2) of a non-empty string of binary digits.
RECURSIVE parseInt2(_)
parseInt2(chunk) ==
  IF chunk = <<>> THEN 0
  ELSE 2 * parseInt2(SubSeq(chunk, 1, Len(chunk) - 1)) + chunk[Len(chunk)]

\* binary.match(/.{1,8}/g) || []: greedy chunks of 8, the last one shorter.
RECURSIVE chunks8(_)
chunks8(binary) ==
  IF binary = <<>> THEN <<>>
  ELSE <<SubSeq(binary, 1, Min(8, Len(binary)))>> \o chunks8(substringFrom(binary, 8))

\* textToBinary padding every character to 7 digits only.
RECURSIVE textToBinaryPad7(_)
textToBinaryPad7(text) ==
  IF text = <<>> THEN <<>>
  ELSE padStart(toString2(Head(text)), 7) \o textToBinaryPad7(Tail(text))

\* AudioUtils.textToBinary
RECURSIVE textToBinary(_)
textToBinary(text) ==
  IF text = <<>> THEN <<>>
  ELSE padStart(toString2(Head(text)), 8) \o textToBinary(Tail(text))

\* AudioUtils.binaryToText
binaryToText(binary) ==
  LET chunks == chunks8(binary)
  IN [i \in 1..Len(chunks) |-> parseInt2(chunks[i])]

\* AudioUtils.decodeBinary (the try/catch never fires: binaryToText cannot throw)
decodeBinary(binaryString) == binaryToText(binaryString)

\* /^[\x20-\x7E]*$/.test(decoded)
isPrintable(decoded) == \A i \in 1..Len(decoded) : decoded[i] >= 32 /\ decoded[i] <= 126

\* Frame construction of AudioUtils.transmitText.
buildFrame(text) == startMarker \o textToBinary(text) \o endMarker

(***************************************************************************)
(* Frame extraction (decodeBinaryWithPreamble), run on the whole buffer    *)
(* after every accepted append: the first preamble, then the terminators   *)
(* after it in order; a candidate payload with a non-printable character   *)
(* is a false match and the next terminator further along is tried.        *)
(***************************************************************************)
\* The offsets after the preamble at which the terminator occurs.
terminatorsIn(rest) ==
  {e \in 0..(Len(rest) - Len(endMarker)) :
     SubSeq(rest, e + 1, e + Len(endMarker)) = endMarker}

\* The candidate payload before the terminator at offset e, cut to whole
\* bytes and decoded by byte value.
payloadBefore(rest, e) == binaryToText(substring(rest, 0, (e \div 8) * 8))

decodeBinaryWithPreamble(buffer) ==
  LET p == indexOf(buffer, startMarker)
  IN IF p = -1
     THEN [hasValidPreamble |-> FALSE, isComplete |-> FALSE, decoded |-> <<>>]
     ELSE LET rest == substringFrom(buffer, p + Len(startMarker))
              accepted == {e \in terminatorsIn(rest) : isPrintable(payloadBefore(rest, e))}
          IN IF accepted = {}
             THEN [hasValidPreamble |-> TRUE, isComplete |-> FALSE, decoded |-> <<>>]
             ELSE LET e == CHOOSE x \in accepted : \A y \in accepted : x <= y
                  IN [hasValidPreamble |-> TRUE, isComplete |-> TRUE,
                      decoded |-> payloadBefore(rest, e)]

(***************************************************************************)
(* State.  Time is kept relative: sinceDetection is                        *)
(* Date.now() - lastDetectionRef.current (exact up to GapCap, which lies   *)
(* above every window the code compares it with), a timer is the time left *)
(* until it is due.                                                        *)
(***************************************************************************)
VARIABLES
  isListening,           \* Receiver: useState isListening
  status,                \* Receiver: useState status
  syncStatus,            \* Receiver: useState syncStatus
  receivedMessage,       \* Receiver: useState receivedMessage
  analysis,              \* Receiver: result of the last analyzeSpectrum() call
  binaryBuffer,          \* Receiver: binaryBufferRef.current
  sinceDetection,        \* Receiver: Date.now() - lastDetectionRef.current
  consecutiveDetection,  \* Receiver: consecutiveDetectionRef.current
  hasPreamble,           \* Receiver: hasPreambleRef.current
  timers,                \* Receiver: time left of the pending setTimeout resets
  emitted,               \* messages handed to onMessageReceived, in order
  uStatus,               \* unframed Receiver: useState status
  uBuffer,               \* unframed Receiver: binaryBufferRef.current
  uSince,                \* unframed Receiver: Date.now() - lastDetectionRef.current
  uEmitted,              \* unframed Receiver: messages handed to onMessageReceived
  uReceivedMessage,      \* unframed Receiver: useState receivedMessage
  lastOp,                \* the handler that ran last
  message,               \* Transmitter: useState message
  isTransmitting,        \* Transmitter: useState isTransmitting
  txStatus,              \* Transmitter: useState status
  frame,                 \* the frame whose waveform was last played
  data_buffer,           \* the channel data of the synthesized AudioBuffer
  playRemaining,         \* time left until transmitText's promise resolves
  pos,                   \* symbols of the played frame already heard
  pendingFrames,         \* requested animation frames whose callback has not run
  animationFrameRef,     \* Receiver: animationFrameRef.current
  effectDue,             \* Receiver: the loop effect has to run after a render
  microphone,            \* AudioUtils: this.microphone is a connected source node
  analyser,              \* AudioUtils: this.analyser is an analyser node
  liveStreams,           \* media streams captured by getUserMedia, tracks running
  waveRemaining,         \* time left until the played waveform has ended
  dataArray,             \* the snapshot read by the last analyzeSpectrum() call
  spectrumResult,        \* the value returned by the last analyzeSpectrum() call
  candidate,             \* unframed Receiver: the last start offset's remaining bits and decoding
  readyTimers,           \* Transmitter: time left of the pending 'Ready to transmit' timers
  inProgress,            \* Transmitter: calls of handleTransmit that have not finished
  renderedTransmitting,  \* Transmitter: isTransmitting as seen by the last render
  transmitterStatus,     \* App: useState transmitterStatus
  receiverStatus,        \* App: useState receiverStatus
  activityLog,           \* App: useState activityLog, entries without their timestamp
  history,               \* the last LogCap + 1 entries passed to addToLog since the last clearLog
  sentSinceComplete,     \* 'sent' entries added since the status last became 'Transmission complete'
  txEffectDue,           \* Transmitter: the status effect has to run after a render
  rxEffectDue,           \* Receiver: the status effect has to run after a render
  txPhase,               \* Transmitter: where the running handleTransmit waits (init, starting, playing, returned) or idle
  startsPending,         \* Receiver: calls of startListening waiting for the microphone
  mounted,               \* Receiver: the component is mounted
  renderedListening,     \* Receiver: isListening as seen by the last render
  uReceiverStatus,       \* App with the unframed Receiver: useState receiverStatus
  uActivityLog           \* App with the unframed Receiver: useState activityLog

rxVars == <<isListening, status, syncStatus, receivedMessage, analysis,
            binaryBuffer, sinceDetection, consecutiveDetection, hasPreamble,
            timers, emitted>>
uVars == <<uStatus, uBuffer, uSince, uEmitted, uReceivedMessage>>
txState == <<message, isTransmitting, txStatus, frame, data_buffer, inProgress,
             renderedTransmitting, txPhase>>
txVars == <<txState, readyTimers>>
loopVars == <<pendingFrames, animationFrameRef, effectDue>>
micVars == <<microphone, analyser, liveStreams, startsPending>>
snapVars == <<dataArray, spectrumResult>>
probeVars == <<candidate>>
uAppVars == <<uReceiverStatus, uActivityLog>>
appVars == <<transmitterStatus, receiverStatus, activityLog, history, sentSinceComplete,
             uAppVars>>
statusEffects == <<txEffectDue, rxEffectDue>>
lifeVars == <<mounted, renderedListening>>
vars == <<rxVars, uVars, lastOp, txVars, playRemaining, pos, loopVars, micVars,
          waveRemaining, snapVars, probeVars, appVars, statusEffects, lifeVars>>

\* .slice(-10) of addToLog
LogCap == 10

\* s.slice(0, n): the first n entries.
sliceFirst(s, n) == IF Len(s) > n THEN SubSeq(s, 1, n) ELSE s

\* s.slice(-n): the last n entries.
sliceLast(s, n) == IF Len(s) > n THEN SubSeq(s, Len(s) - n + 1, Len(s)) ELSE s

\* An entry of the activity log; the timestamp is left out.
logEntry(type, text) == [type |-> type, message |-> text]

\* The state set by addToLog(type, message).
addToLog(log, type, text) == sliceLast(Append(log, logEntry(type, text)), LogCap)

\* The entries passed to addToLog, the last LogCap + 1 of them.
historyAfter(type, text) ==
  LET all == Append(history, logEntry(type, text))
  IN IF Len(all) > LogCap + 1 THEN Tail(all) ELSE all

\* status.includes('Error'), status.includes('complete') on the status texts.
includesError(s) ==
  s \in {"Error: Microphone access denied or unavailable",
         "Error: AudioContext unavailable"}
includesComplete(s) == s = "Transmission complete"

NoAnalysis == [detected |-> FALSE, bit |-> <<>>, quality |-> 0]

\* A snapshot is given by the byte of the bin nearest a carrier (c0, c1), the
\* byte of the other bins within 6 bins of it (w0, w1) and the byte of every
\* other bin (n).
SilentSnapshot == [c0 |-> 0, w0 |-> 0, c1 |-> 0, w1 |-> 0, n |-> 0]

\* The channel data of an audio buffer: its length in samples and, for every
\* run of the synthesis loop, the sample indices [from, to) it wrote with a
\* tone of the given frequency.  Every other sample is zero.
NoBuffer == [length |-> 0, slots |-> <<>>]

\* No start offset tried yet.
NoCandidate == [buffer |-> <<>>, start |-> -1, remaining |-> <<>>, decoded |-> <<>>]

\* analyzeSpectrum without an analyser
NoSpectrumResult ==
  [freq0 |-> 0, freq1 |-> 0, detected |-> FALSE, detectedBit |-> <<>>,
   signalQuality |-> 0]

Init ==
  /\ isListening = FALSE
  /\ status = "Not listening"
  /\ syncStatus = "Waiting for signal..."
  /\ receivedMessage = <<>>
  /\ analysis = NoAnalysis
  /\ binaryBuffer = <<>>
  /\ sinceDetection = GapCap
  /\ consecutiveDetection = 0
  /\ hasPreamble = FALSE
  /\ timers = {}
  /\ emitted = <<>>
  /\ uStatus = "Not listening"
  /\ uBuffer = <<>>
  /\ uSince = GapCap
  /\ uEmitted = <<>>
  /\ lastOp = "init"
  /\ message = <<>>
  /\ isTransmitting = FALSE
  /\ txStatus = "Ready to transmit"
  /\ frame = <<>>
  /\ data_buffer = NoBuffer
  /\ playRemaining = 0
  /\ pos = 0
  /\ pendingFrames = 0
  /\ animationFrameRef = "null"
  /\ effectDue = FALSE
  /\ microphone = FALSE
  /\ analyser = FALSE
  /\ liveStreams = 0
  /\ waveRemaining = 0
  /\ dataArray = SilentSnapshot
  /\ spectrumResult = NoSpectrumResult
  /\ candidate = NoCandidate
  /\ readyTimers = {}
  /\ inProgress = 0
  /\ renderedTransmitting = FALSE
  /\ transmitterStatus = "Ready to transmit"
  /\ receiverStatus = "Not listening"
  /\ activityLog = <<>>
  /\ history = <<>>
  /\ sentSinceComplete = 0
  /\ txEffectDue = FALSE
  /\ rxEffectDue = FALSE
  /\ uReceivedMessage = <<>>
  /\ txPhase = "idle"
  /\ startsPending = 0
  /\ mounted = TRUE
  /\ renderedListening = FALSE
  /\ uReceiverStatus = "Not listening"
  /\ uActivityLog = <<>>

\* The continuation of an await on a settled promise is queued as a
\* microtask: it runs before any timer, animation frame or effect.
microtaskPending == txPhase \in {"starting", "returned"}

\* Date.now() - lastDetectionRef.current, dt ms later.
gapAfter(dt) == Min(sinceDetection + dt, GapCap)

\* The pending timers and the playback, dt ms later.
timersAfter(dt) == {r - dt : r \in timers}
timersReadyAfter(dt) == readyTimers' = {r - dt : r \in readyTimers}
playAfter(dt) == IF playRemaining > dt THEN playRemaining - dt ELSE 0
waveAfter(dt) == IF waveRemaining > dt THEN waveRemaining - dt ELSE 0

(***************************************************************************)
(* Symbol detector (analyzeSpectrum, second definition).  The energies are *)
(* IEEE 754 doubles.  A double is kept as its 53-bit significand m and the *)
(* exponent e of its last place, value m * 2^e; a significand is beyond    *)
(* 32-bit integers and is kept as its digits in base 2^15,                 *)
(* least significant first, no leading zero.  Every operation computes the *)
(* exact result and rounds it to 53 bits, ties to even.                    *)
(***************************************************************************)
Abs(x) == IF x < 0 THEN -x ELSE x
Max(a, b) == IF a > b THEN a ELSE b

\* Math.round(a / b) for a >= 0, b > 0
roundDiv(a, b) == (2 * a + b) \div (2 * b)

LimbBits == 15
Limb == pow2(LimbBits)

RECURSIVE trim(_)
trim(a) ==
  IF a # <<>> /\ a[Len(a)] = 0 THEN trim(SubSeq(a, 1, Len(a) - 1)) ELSE a

RECURSIVE bigOf(_)
bigOf(n) == IF n = 0 THEN <<>> ELSE <<n % Limb>> \o bigOf(n \div Limb)

RECURSIVE intOf(_)
intOf(a) == IF a = <<>> THEN 0 ELSE Head(a) + Limb * intOf(Tail(a))

headOf(a) == IF a = <<>> THEN 0 ELSE Head(a)
tailOf(a) == IF a = <<>> THEN <<>> ELSE Tail(a)

RECURSIVE bigAddCarry(_, _, _)
bigAddCarry(a, b, carry) ==
  IF a = <<>> /\ b = <<>> THEN bigOf(carry)
  ELSE LET x == headOf(a) + headOf(b) + carry
       IN <<x % Limb>> \o bigAddCarry(tailOf(a), tailOf(b), x \div Limb)

bigAdd(a, b) == bigAddCarry(a, b, 0)

\* a - b for a >= b
RECURSIVE bigSubBorrow(_, _, _)
bigSubBorrow(a, b, borrow) ==
  IF a = <<>> THEN <<>>
  ELSE LET x == Head(a) - headOf(b) - borrow
       IN <<IF x < 0 THEN x + Limb ELSE x>>
            \o bigSubBorrow(Tail(a), tailOf(b), IF x < 0 THEN 1 ELSE 0)

bigSub(a, b) == trim(bigSubBorrow(a, b, 0))

\* a * k + carry for 0 < k < 2^15
RECURSIVE bigMulSmall(_, _, _)
bigMulSmall(a, k, carry) ==
  IF a = <<>> THEN bigOf(carry)
  ELSE LET x == Head(a) * k + carry
       IN <<x % Limb>> \o bigMulSmall(Tail(a), k, x \div Limb)

\* quotient and remainder of a by k, 0 < k < 2^15
RECURSIVE bigDivDigits(_, _)
bigDivDigits(a, k) ==
  IF a = <<>> THEN [q |-> <<>>, r |-> 0]
  ELSE LET high == bigDivDigits(Tail(a), k)
           x == high.r * Limb + Head(a)
       IN [q |-> <<x \div k>> \o high.q, r |-> x % k]

bigDivSmall(a, k) ==
  LET d == bigDivDigits(a, k) IN [q |-> trim(d.q), r |-> d.r]

\* a < b, digit by digit from the top
RECURSIVE bigLessDigits(_, _)
bigLessDigits(a, b) ==
  IF a = <<>> THEN FALSE
  ELSE IF a[Len(a)] # b[Len(b)] THEN a[Len(a)] < b[Len(b)]
  ELSE bigLessDigits(SubSeq(a, 1, Len(a) - 1), SubSeq(b, 1, Len(b) - 1))

bigLess(a, b) == IF Len(a) # Len(b) THEN Len(a) < Len(b) ELSE bigLessDigits(a, b)

bitLength(a) ==
  IF a = <<>> THEN 0 ELSE LimbBits * (Len(a) - 1) + exponentOf(a[Len(a)]) + 1

shiftLeft(a, n) ==
  IF a = <<>> THEN <<>>
  ELSE [i \in 1..(n \div LimbBits) |-> 0] \o bigMulSmall(a, pow2(n % LimbBits), 0)

shiftRight(a, n) ==
  IF n \div LimbBits >= Len(a) THEN <<>>
  ELSE bigDivSmall(SubSeq(a, (n \div LimbBits) + 1, Len(a)), pow2(n % LimbBits)).q

\* The double nearest to (a + f) * 2^e, 0 <= f < 1 and f > 0 only when
\* inexact; a has more than 53 bits when inexact.
roundToDouble(a, e, inexact) ==
  IF bitLength(a) <= 53
  THEN [m |-> shiftLeft(a, 53 - bitLength(a)), e |-> e - (53 - bitLength(a))]
  ELSE LET d == bitLength(a) - 53
           q == shiftRight(a, d)
           r == bigSub(a, shiftLeft(q, d))
           half == shiftLeft(<<1>>, d - 1)
           up == \/ bigLess(half, r)
                 \/ r = half /\ (inexact \/ headOf(q) % 2 = 1)
           m == IF up THEN bigAdd(q, <<1>>) ELSE q
       IN IF bitLength(m) > 53
          THEN [m |-> shiftRight(m, 1), e |-> e + d + 1]
          ELSE [m |-> m, e |-> e + d]

\* The double of an integer n >= 0.
toDouble(n) == roundToDouble(bigOf(n), 0, FALSE)

\* x / k for a whole number k, 0 < k < 2^15
dividedBy(x, k) ==
  LET d == bigDivSmall(shiftLeft(x.m, 2 * LimbBits), k)
  IN roundToDouble(d.q, x.e - 2 * LimbBits, d.r # 0)

\* The digit d with b * d <= r < b * (d + 1), for r < b * 2^15 and the top
\* digit of b at least 2^14: the quotient of the top digits of r by the top
\* digit of b is d, d + 1 or d + 2.
digitOf(r, b) ==
  LET n == Len(b)
      top == IF Len(r) > n THEN r[n + 1] ELSE 0
      next == IF Len(r) >= n THEN r[n] ELSE 0
      guess == Min(Limb - 1, (top * Limb + next) \div b[n])
      fits(c) == c = 0 \/ ~bigLess(r, bigMulSmall(b, c, 0))
  IN IF fits(guess) THEN guess
     ELSE IF fits(guess - 1) THEN guess - 1
     ELSE guess - 2

\* Quotient and remainder of a by b, digit by digit from digit i of a down,
\* with the quotient q and the remainder r of the digits above i.
RECURSIVE bigDivFrom(_, _, _, _, _)
bigDivFrom(a, b, i, q, r) ==
  IF i = 0 THEN [q |-> trim(q), r |-> r]
  ELSE LET rest == trim(<<a[i]>> \o r)
           d == digitOf(rest, b)
       IN bigDivFrom(a, b, i - 1, <<d>> \o q,
                     IF d = 0 THEN rest ELSE bigSub(rest, bigMulSmall(b, d, 0)))

\* x / y for y > 0; both significands are shifted so that the top digit of
\* the divisor is at least 2^14, and the division starts below the digits
\* of the dividend that are fewer than the divisor's.
quotient(x, y) ==
  LET up == LimbBits * Len(y.m) - bitLength(y.m)
      a == shiftLeft(x.m, 4 * LimbBits + up)
      b == shiftLeft(y.m, up)
      above == Min(Len(a), Len(b) - 1)
      d == bigDivFrom(a, b, Len(a) - above, <<>>,
                      SubSeq(a, Len(a) - above + 1, Len(a)))
  IN roundToDouble(d.q, x.e - y.e - 4 * LimbBits, d.r # <<>>)

\* The significands of x and y at the smaller of their exponents.
aligned(x, y) ==
  LET e == IF x.m = <<>> THEN y.e ELSE IF y.m = <<>> THEN x.e ELSE Min(x.e, y.e)
  IN [x |-> shiftLeft(x.m, x.e - e), y |-> shiftLeft(y.m, y.e - e), e |-> e]

\* x + y
plus(x, y) ==
  LET a == aligned(x, y) IN roundToDouble(bigAdd(a.x, a.y), a.e, FALSE)

\* x < y
lessThan(x, y) == LET a == aligned(x, y) IN bigLess(a.x, a.y)

\* Math.abs(x - y)
absDifference(x, y) ==
  LET a == aligned(x, y)
  IN roundToDouble(IF bigLess(a.x, a.y) THEN bigSub(a.y, a.x) ELSE bigSub(a.x, a.y),
                   a.e, FALSE)

\* x * k for a whole number k, 0 < k < 2^15
times(x, k) == roundToDouble(bigMulSmall(x.m, k, 0), x.e, FALSE)

\* x * 0.3: the double 0.3 is (3 * 2^53 - 1) / 5 * 2^-54.
timesThreeTenths(x) ==
  roundToDouble(bigDivSmall(bigSub(shiftLeft(bigMulSmall(x.m, 3, 0), 53), x.m), 5).q,
                x.e - 54, FALSE)

\* Math.round(x): the largest integer not above x + 0.5
mathRound(x) ==
  IF x.m = <<>> THEN 0
  ELSE IF x.e >= 0 THEN intOf(shiftLeft(x.m, x.e))
  ELSE intOf(shiftRight(bigAdd(x.m, shiftLeft(<<1>>, -x.e - 1)), -x.e))

\* analyser.frequencyBinCount
bufferLength == FFT_SIZE \div 2

\* Math.round(freq / binSize) with binSize = (SAMPLE_RATE / 2) / bufferLength
binOf(freq) == roundDiv(freq * bufferLength * 2, SAMPLE_RATE)
bin0 == binOf(FREQ_0)
bin1 == binOf(FREQ_1)

\* The field of a snapshot that gives the byte of bin i.
binClass(i) ==
  IF i = bin0 THEN "c0"
  ELSE IF Abs(i - bin0) <= 2 * windowSize THEN "w0"
  ELSE IF i = bin1 THEN "c1"
  ELSE IF Abs(i - bin1) <= 2 * windowSize THEN "w1"
  ELSE "n"

\* dataArray[i] of the snapshot d
binValue(d, i) == d[binClass(i)]

\* The sum of the loop over i = -windowSize .. windowSize, from offset i on.
RECURSIVE windowSumFrom(_, _, _)
windowSumFrom(d, bin, i) ==
  IF i > windowSize THEN 0
  ELSE (IF bin + i >= 0 /\ bin + i < bufferLength THEN binValue(d, bin + i) ELSE 0)
       + windowSumFrom(d, bin, i + 1)

windowSum(d, bin) == windowSumFrom(d, bin, -windowSize)

\* energy0 /= (windowSize * 2 + 1)
energyOf(sum, width) == dividedBy(toDouble(sum), width)

\* The bins counted as background noise.
isNoiseBin(i) == Abs(i - bin0) > windowSize * 2 /\ Abs(i - bin1) > windowSize * 2

\* The loop over all bins adds dataArray[i] for every noise bin i; the bins
\* are added up here by the snapshot field that gives their byte.
BinClasses == {"c0", "w0", "c1", "w1", "n"}

NoiseBinsOf ==
  [k \in BinClasses |->
     Cardinality({i \in 0..(bufferLength - 1) : isNoiseBin(i) /\ binClass(i) = k})]

\* noiseLevel and noiseCount after the loop.
noiseSum(d) ==
  d.c0 * NoiseBinsOf["c0"] + d.w0 * NoiseBinsOf["w0"] + d.c1 * NoiseBinsOf["c1"]
    + d.w1 * NoiseBinsOf["w1"] + d.n * NoiseBinsOf["n"]

noiseCount ==
  NoiseBinsOf["c0"] + NoiseBinsOf["w0"] + NoiseBinsOf["c1"] + NoiseBinsOf["w1"]
    + NoiseBinsOf["n"]

\* noiseLevel = noiseCount > 0 ? noiseLevel / noiseCount : 50
noiseLevel(d) ==
  IF noiseCount > 0
  THEN dividedBy(toDouble(noiseSum(d)), noiseCount)
  ELSE toDouble(DefaultNoise)

\* detected: maxEnergy > Math.max(noiseLevel + 15, 30), with maxEnergy =
\* maxSum / width
isDetected(maxSum, width, noise) ==
  LET maxEnergy == energyOf(maxSum, width)
  IN /\ lessThan(plus(noise, toDouble(NoiseMargin)), maxEnergy)
     /\ lessThan(toDouble(EnergyFloor), maxEnergy)

\* The bit decided on the relative difference alone.
isBitClearNoFloor(sum0, sum1, width) ==
  LET energy0 == energyOf(sum0, width)
      energy1 == energyOf(sum1, width)
  IN lessThan(timesThreeTenths(plus(energy0, energy1)),
              absDifference(energy0, energy1))

\* energyDiff > totalEnergy * 0.3 && energyDiff > 40
isBitClear(sum0, sum1, width) ==
  LET energy0 == energyOf(sum0, width)
      energy1 == energyOf(sum1, width)
      energyDiff == absDifference(energy0, energy1)
      totalEnergy == plus(energy0, energy1)
      minEnergyForBit == timesThreeTenths(totalEnergy)
  IN /\ lessThan(minEnergyForBit, energyDiff)
     /\ lessThan(toDouble(MinDiff), energyDiff)

\* The comparison turned around.
bitOfSwapped(sum0, sum1) == IF sum0 > sum1 THEN <<1>> ELSE <<0>>

\* energy1 > energy0 ? '1' : '0' (the quotients by the same width compare
\* as the sums do)
bitOf(sum0, sum1) == IF sum1 > sum0 THEN <<1>> ELSE <<0>>

\* Math.round(Math.min(100, Math.max(0, (signalToNoise - 1) * 20))) with
\* signalToNoise = maxEnergy / (noiseLevel + 1)
signalQualityOf(maxSum, width, noise) ==
  LET maxEnergy == energyOf(maxSum, width)
      one == toDouble(1)
      signalToNoise == quotient(maxEnergy, plus(noise, one))
      scaled == times(absDifference(signalToNoise, one), QualityGain)
  IN IF ~lessThan(one, signalToNoise) THEN 0
     ELSE IF lessThan(toDouble(100), scaled) THEN 100
     ELSE mathRound(scaled)

\* analyzeSpectrum on the snapshot d
analyzeSpectrum(hasAnalyser, d) ==
  IF ~hasAnalyser THEN NoSpectrumResult
  ELSE LET width == windowSize * 2 + 1
           sum0 == windowSum(d, bin0)
           sum1 == windowSum(d, bin1)
           noise == noiseLevel(d)
           maxSum == Max(sum0, sum1)
           detected == isDetected(maxSum, width, noise)
       IN [freq0 |-> mathRound(energyOf(sum0, width)),
           freq1 |-> mathRound(energyOf(sum1, width)),
           detected |-> detected,
           detectedBit |-> IF detected /\ isBitClear(sum0, sum1, width)
                           THEN bitOf(sum0, sum1)
                           ELSE <<>>,
           signalQuality |-> signalQualityOf(maxSum, width, noise)]

(***************************************************************************)
(* Receiver (framed variant).                                              *)
(***************************************************************************)

\* The acceptance test with the confirmation requirement off by one.
acceptsFirst(count, quality) == count >= 1 \/ quality > HighQuality

\* The acceptance test of the listen loop, given the counter after its update.
accepts(count, quality) == count >= 2 \/ quality > HighQuality

\* The consecutive-detection counter after a non-NONE decision.
nextConsecutive(gap) ==
  IF gap < ConsecutiveWindow THEN consecutiveDetection + 1 ELSE 1

\* A decision taken for a symbol as soon as energy is detected.
isSymbolDetectedOnly(a) == a.detected

\* A decision carries a symbol: analysis.detected && analysis.bit
isSymbol(a) == a.detected /\ a.bit # <<>>

\* Synchronization taken for completion.
shouldEmitOnPreamble(decodeResult) == decodeResult.hasValidPreamble

\* The message is delivered: decodeResult.isComplete
shouldEmit(decodeResult) == decodeResult.isComplete

\* The synchronization is announced: hasValidPreamble && !hasPreambleRef.current
shouldSync(decodeResult) == decodeResult.hasValidPreamble /\ ~hasPreamble

\* The App renders again, and hands the Receiver a new onMessageReceived,
\* when a status it mirrors changes or a message is logged.
appRendered == status' # status \/ emitted' # emitted \/ txStatus' # txStatus

\* The dependencies [isListening, listenLoop] of the loop effect have changed.
loopDepsChanged == isListening' # isListening \/ appRendered

\* if (animationFrameRef.current) cancelAnimationFrame(animationFrameRef.current):
\* the ref holds the frame requested last, which is pending, has run or has
\* been cancelled.
framesAfterCancel ==
  IF animationFrameRef = "pending" THEN pendingFrames - 1 ELSE pendingFrames

\* The listening render has been committed and its passive effects have not
\* run yet: the loop effect of that render is the one that requests the first
\* frame, and from then on the ref holds a requested frame for as long as the
\* Receiver listens.  A render that is only scheduled has no effect pending.
passivePending ==
  /\ isListening
  /\ renderedListening
  /\ effectDue
  /\ animationFrameRef # "pending"

\* Stop has been clicked while the loop effect of a listening render had not
\* run yet: React runs that effect, whose closure has isListening = true,
\* before it renders the state set by the click.
staleLoopDue ==
  /\ mounted
  /\ renderedListening
  /\ ~isListening
  /\ effectDue
  /\ animationFrameRef = "null"

\* The work that follows a Stop click in the same task is under way: the
\* render of the click, or the effect of that render, which cancels the
\* frame a late run of the loop has requested.
stopFlush ==
  \/ mounted /\ renderedListening /\ ~isListening
  \/ ~isListening /\ pendingFrames > 0

\* The counter reset by every NONE decision.
noSignalCountAlways(gap) == 0

\* The consecutive-detection counter after a NONE decision: reset once the
\* last accepted symbol is more than 200 ms old.
noSignalCount(gap) == IF gap > NoSignalWindow THEN 0 ELSE consecutiveDetection

\* The body of listenLoop behind its guard, on the snapshot analysed as a,
\* dt ms after the previous event.  A timer that is due fires before a later
\* tick.  When the run is that of the loop effect of the listening render
\* after a Stop click, the status effect of that render, declared before the
\* loop effect, has run first and has reported the status of that render.
listenStep(a, dt) ==
  /\ \A r \in timers \cup readyTimers : dt <= r
  /\ dt > 0 => ~(txPhase = "playing" /\ playRemaining = 0)
  /\ ~microtaskPending
  /\ analyser \/ a = NoAnalysis
  /\ timersReadyAfter(dt)
  /\ playRemaining' = playAfter(dt)
  /\ waveRemaining' = waveAfter(dt)
  /\ analysis' = IF mounted THEN a ELSE analysis
  /\ lastOp' = "listenLoop"
  /\ IF isSymbol(a)
     THEN LET count == nextConsecutive(gapAfter(dt))
          IN /\ consecutiveDetection' = count
             /\ IF accepts(count, a.quality)
                THEN LET buffer == binaryBuffer \o a.bit
                         decodeResult == decodeBinaryWithPreamble(buffer)
                         sync == shouldSync(decodeResult)
                     IN /\ binaryBuffer' = buffer
                        /\ sinceDetection' = 0
                        /\ hasPreamble' = (hasPreamble \/ sync)
                        /\ IF shouldEmit(decodeResult)
                           THEN /\ receivedMessage' = decodeResult.decoded
                                /\ emitted' = Append(emitted, decodeResult.decoded)
                                /\ status' = "Received"
                                /\ syncStatus' = "Message received successfully!"
                                /\ timers' = timersAfter(dt) \cup {ResetDelay}
                           ELSE /\ status' = IF sync
                                             THEN "Synchronized - receiving message..."
                                             ELSE status
                                /\ syncStatus' = IF sync
                                                 THEN "Preamble detected - receiving data..."
                                                 ELSE syncStatus
                                /\ timers' = timersAfter(dt)
                                /\ UNCHANGED <<receivedMessage, emitted>>
                ELSE /\ sinceDetection' = gapAfter(dt)
                     /\ timers' = timersAfter(dt)
                     /\ UNCHANGED <<binaryBuffer, hasPreamble, receivedMessage,
                                    emitted, status, syncStatus>>
     ELSE /\ consecutiveDetection' = noSignalCount(gapAfter(dt))
          /\ sinceDetection' = gapAfter(dt)
          /\ timers' = timersAfter(dt)
          /\ UNCHANGED <<binaryBuffer, hasPreamble, receivedMessage, emitted,
                         status, syncStatus>>
  /\ UNCHANGED <<isListening, txState, micVars, snapVars, probeVars, lifeVars,
                 transmitterStatus, sentSinceComplete>>
  /\ receiverStatus' = IF staleLoopDue THEN "Listening for signals..." ELSE receiverStatus
  /\ activityLog' = IF emitted' # emitted
                    THEN addToLog(activityLog, "received", receivedMessage')
                    ELSE activityLog
  /\ history' = IF emitted' # emitted
                THEN historyAfter("received", receivedMessage')
                ELSE history
  /\ txEffectDue' = (txEffectDue \/ emitted' # emitted)
  /\ rxEffectDue' = (rxEffectDue \/ status' # status \/ emitted' # emitted)

\* listenLoop run as the callback of a requested animation frame.  A frame is
\* requested only at the end of a run that passed the guard, so the closure
\* of a pending callback has isListening = true; the run requests the next
\* frame and stores its handle.
listenLoop(a, dt) ==
  /\ pendingFrames > 0
  /\ ~stopFlush
  /\ listenStep(a, dt)
  /\ pendingFrames' = (pendingFrames - 1) + 1
  /\ animationFrameRef' = "pending"
  /\ effectDue' = (effectDue \/ loopDepsChanged)

\* The loop effect of a listening render, run after stopListening and before
\* the render of the click: its closure has isListening = true, so the guard
\* of listenLoop passes; the analyser is gone and analyzeSpectrum returns no
\* detection; the run requests a frame and stores its handle.
staleLoopEffect ==
  /\ staleLoopDue
  /\ listenStep(NoAnalysis, 0)
  /\ pendingFrames' = framesAfterCancel + 1
  /\ animationFrameRef' = "pending"
  /\ effectDue' = TRUE
  /\ uReceiverStatus' = "Listening for signals..."
  /\ UNCHANGED <<uVars, uActivityLog, pos>>

\* The loop effect (useEffect on [isListening, listenLoop]), run after the
\* render that shows isListening: the cleanup of the previous run cancels the
\* stored frame, then the loop is entered directly when the receiver listens.
loopEffect(a) ==
  /\ mounted
  /\ effectDue
  /\ renderedListening = isListening
  /\ IF isListening
     THEN /\ listenStep(a, 0)
          /\ pendingFrames' = framesAfterCancel + 1
          /\ animationFrameRef' = "pending"
          /\ effectDue' = loopDepsChanged
     ELSE /\ pendingFrames' = framesAfterCancel
          /\ animationFrameRef' = IF animationFrameRef = "null" THEN "null" ELSE "stale"
          /\ effectDue' = FALSE
          /\ lastOp' = "effect"
          /\ UNCHANGED <<rxVars, txVars, playRemaining, waveRemaining, micVars,
                         snapVars, probeVars, lifeVars, appVars, statusEffects>>

\* A candidate decoded from all the remaining bits.
candidateAtWhole(buffer, start) == decodeBinary(substringFrom(buffer, start))

\* The unframed variant's best decoding of the buffer: the start offsets
\* 0..MaxStart are tried in order and a candidate replaces the best one only
\* when it is strictly longer.
candidateAt(buffer, start) ==
  LET remaining == substringFrom(buffer, start)
      byteLength == (Len(remaining) \div 8) * 8
  IN IF byteLength >= 8 THEN decodeBinary(substring(remaining, 0, byteLength)) ELSE <<>>

\* The printable test left out.
isCandidateValidAny(decoded) == Len(decoded) > 0

\* decoded && /^[\x20-\x7E]*$/.test(decoded) && decoded.length > 0
isCandidateValid(decoded) == isPrintable(decoded) /\ Len(decoded) > 0

\* A candidate that replaces one of its own length.
isLongerOrEqual(decoded, bestMatch) == Len(decoded) >= Len(bestMatch)

\* decoded.length > bestMatch.length
isLonger(decoded, bestMatch) == Len(decoded) > Len(bestMatch)

RECURSIVE bestMatchFrom(_, _, _)
bestMatchFrom(buffer, start, best) ==
  IF start > MaxStart THEN best
  ELSE LET decoded == candidateAt(buffer, start)
       IN bestMatchFrom(buffer, start + 1,
            IF isCandidateValid(decoded) /\ isLonger(decoded, best.bestMatch)
            THEN [bestMatch |-> decoded, bestStart |-> start]
            ELSE best)

bestMatchOf(buffer) == bestMatchFrom(buffer, 0, [bestMatch |-> <<>>, bestStart |-> 0])

\* The buffer cap: beyond BufferCap bits the first CapDrop bits are dropped.
capBuffer(buffer) ==
  IF Len(buffer) > BufferCap THEN substringFrom(buffer, CapDrop) ELSE buffer

\* One run of the unframed variant's listenLoop on the same snapshot.  Its
\* onMessageReceived is App's handleMessageReceived, which logs the message.
listenLoopUnframed(a, dt) ==
  LET gap == Min(uSince + dt, GapCap)
  IN IF a.detected /\ a.bit # <<>> /\ a.quality > MinQuality /\ gap > DedupeWindow
     THEN LET appended == uBuffer \o a.bit
              tryDecode == Len(appended) >= MinDecodeBits
              best == bestMatchOf(appended)
              found == tryDecode /\ best.bestMatch # <<>>
              rest == IF found
                      THEN substringFrom(appended,
                                         best.bestStart + Len(best.bestMatch) * 8)
                      ELSE appended
          IN /\ uBuffer' = capBuffer(rest)
             /\ uEmitted' = IF found THEN Append(uEmitted, best.bestMatch) ELSE uEmitted
             /\ uReceivedMessage' = IF found THEN best.bestMatch ELSE uReceivedMessage
             /\ uActivityLog' = IF found
                                THEN addToLog(uActivityLog, "received", best.bestMatch)
                                ELSE uActivityLog
             /\ uStatus' = IF found THEN "Received" ELSE uStatus
             /\ uSince' = 0
             /\ UNCHANGED uReceiverStatus
     ELSE /\ uSince' = gap
          /\ UNCHANGED <<uBuffer, uEmitted, uReceivedMessage, uStatus, uAppVars>>

\* The reset scheduled by setTimeout when a message was received.  The
\* closure was created inside a listen loop that saw isListening = true.
\* While the receiver listens, time passes with the listen loop's ticks and
\* the timer fires when it is due; otherwise nothing happens until it is due.
TimerFire ==
  /\ ~stopFlush
  /\ timers # {}
  /\ ~microtaskPending
  /\ LET due == CHOOSE d \in timers : \A e \in timers : d <= e
     IN /\ due = 0 \/ ~isListening \/ ~mounted
        /\ txPhase # "playing" \/ due <= playRemaining
        /\ \A r \in readyTimers : due <= r
        /\ timers' = {r - due : r \in timers \ {due}}
        /\ timersReadyAfter(due)
        /\ sinceDetection' = gapAfter(due)
        /\ playRemaining' = playAfter(due)
        /\ waveRemaining' = waveAfter(due)
  /\ binaryBuffer' = <<>>
  /\ hasPreamble' = FALSE
  /\ syncStatus' = IF mounted THEN "Ready for next message..." ELSE syncStatus
  /\ status' = IF mounted THEN "Listening for signals..." ELSE status
  /\ uSince' = Min(uSince + (CHOOSE d \in timers : \A e \in timers : d <= e), GapCap)
  /\ lastOp' = "timer"
  /\ UNCHANGED <<isListening, receivedMessage, analysis, consecutiveDetection,
                 emitted, uStatus, uBuffer, uEmitted, uReceivedMessage, txState, pos,
                 pendingFrames, animationFrameRef, micVars, snapVars, probeVars,
                 lifeVars, appVars, txEffectDue>>
  /\ rxEffectDue' = (rxEffectDue \/ status' # status)
  /\ effectDue' = (effectDue \/ loopDepsChanged)

\* startListening up to `await audioUtilsRef.current.startListening()`: the
\* handler returns to the event loop while the microphone is asked for.  The
\* Start button stays enabled until a render shows isListening = true.
startListening ==
  /\ ~stopFlush
  /\ mounted
  /\ ~renderedListening
  /\ startsPending < MaxPending
  /\ startsPending' = startsPending + 1
  /\ status' = "Requesting microphone access..."
  /\ uStatus' = "Requesting microphone access..."
  /\ lastOp' = "startListeningRequested"
  /\ UNCHANGED <<isListening, syncStatus, receivedMessage, analysis, binaryBuffer,
                 sinceDetection, consecutiveDetection, hasPreamble, timers, emitted,
                 uBuffer, uSince, uEmitted, uReceivedMessage, txVars, playRemaining,
                 pos, pendingFrames, animationFrameRef, microphone, analyser,
                 liveStreams, waveRemaining, snapVars, probeVars, lifeVars, appVars,
                 txEffectDue>>
  /\ rxEffectDue' = (rxEffectDue \/ status' # status)
  /\ effectDue' = (effectDue \/ loopDepsChanged)

\* startListening after the microphone has been granted.  Its direct call of
\* listenLoop runs the closure of the render in which the button was
\* clicked, where isListening is false, and returns at the guard.  After the
\* unmount the audio context is gone: the stream is captured, connecting it
\* throws, and the handler's catch sets the status of an unmounted component.
startListeningGranted ==
  /\ ~stopFlush
  /\ startsPending > 0
  /\ liveStreams < MaxStreams
  /\ startsPending' = startsPending - 1
  /\ liveStreams' = liveStreams + 1
  /\ lastOp' = IF mounted THEN "startListening" ELSE "startListeningUnmounted"
  /\ IF mounted
     THEN /\ microphone' = TRUE
          /\ analyser' = TRUE
          /\ isListening' = TRUE
          /\ status' = "Listening for signals..."
          /\ receivedMessage' = <<>>
          /\ syncStatus' = "Waiting for signal..."
          /\ binaryBuffer' = <<>>
          /\ hasPreamble' = FALSE
          /\ consecutiveDetection' = 0
          /\ uStatus' = "Listening for signals..."
          /\ uReceivedMessage' = <<>>
          /\ uBuffer' = <<>>
     ELSE UNCHANGED <<microphone, analyser, isListening, status, receivedMessage,
                      syncStatus, binaryBuffer, hasPreamble, consecutiveDetection,
                      uStatus, uReceivedMessage, uBuffer>>
  /\ UNCHANGED <<analysis, sinceDetection, timers, emitted, uSince, uEmitted,
                 txVars, playRemaining, pos, pendingFrames, animationFrameRef,
                 waveRemaining, snapVars, probeVars, lifeVars, appVars, txEffectDue>>
  /\ rxEffectDue' = (rxEffectDue \/ status' # status)
  /\ effectDue' = (effectDue \/ loopDepsChanged)

\* startListening after the microphone has been denied or found unavailable.
startListeningDenied ==
  /\ ~stopFlush
  /\ startsPending > 0
  /\ startsPending' = startsPending - 1
  /\ status' = IF mounted
               THEN "Error: Microphone access denied or unavailable"
               ELSE status
  /\ uStatus' = IF mounted
                THEN "Error: Microphone access denied or unavailable"
                ELSE uStatus
  /\ lastOp' = "startListeningDenied"
  /\ UNCHANGED <<isListening, syncStatus, receivedMessage, analysis, binaryBuffer,
                 sinceDetection, consecutiveDetection, hasPreamble, timers, emitted,
                 uBuffer, uSince, uEmitted, uReceivedMessage, txVars, playRemaining,
                 pos, pendingFrames, animationFrameRef, microphone, analyser,
                 liveStreams, waveRemaining, snapVars, probeVars, lifeVars, appVars,
                 txEffectDue>>
  /\ rxEffectDue' = (rxEffectDue \/ status' # status)
  /\ effectDue' = (effectDue \/ loopDepsChanged)

\* startListening when AudioUtils.startListening rejects at its
\* `await this.initAudioContext()` (no AudioContext can be made): the
\* microphone is not asked for.
startListeningFailed ==
  /\ ~stopFlush
  /\ startsPending > 0
  /\ startsPending' = startsPending - 1
  /\ status' = IF mounted THEN "Error: AudioContext unavailable" ELSE status
  /\ uStatus' = IF mounted THEN "Error: AudioContext unavailable" ELSE uStatus
  /\ lastOp' = "startListeningFailed"
  /\ UNCHANGED <<isListening, syncStatus, receivedMessage, analysis, binaryBuffer,
                 sinceDetection, consecutiveDetection, hasPreamble, timers, emitted,
                 uBuffer, uSince, uEmitted, uReceivedMessage, txVars, playRemaining,
                 pos, pendingFrames, animationFrameRef, microphone, analyser,
                 liveStreams, waveRemaining, snapVars, probeVars, lifeVars, appVars,
                 txEffectDue>>
  /\ rxEffectDue' = (rxEffectDue \/ status' # status)
  /\ effectDue' = (effectDue \/ loopDepsChanged)

\* The render scheduled by setIsListening(true) after the await: until it has
\* run, the buttons are those of the render before.  Also the render of a
\* Stop click that found the loop effect pending, once that effect has run.
renderReceiver ==
  /\ mounted
  /\ renderedListening # isListening
  /\ ~staleLoopDue
  /\ renderedListening' = isListening
  /\ UNCHANGED <<rxVars, uVars, lastOp, txVars, playRemaining, pos, loopVars,
                 micVars, waveRemaining, snapVars, probeVars, appVars,
                 statusEffects, mounted>>

\* stopListening, the handler of the Stop button, which is enabled when the
\* last render saw isListening = true.  A click is a discrete event: the
\* state it sets is rendered before the next event, after the passive effects
\* of the listening render if that render was committed and they have not run
\* yet.  A render that was scheduled and not committed is replaced by the
\* render of the click.
stopListening ==
  /\ mounted
  /\ renderedListening
  /\ ~stopFlush
  /\ isListening' = FALSE
  /\ renderedListening' = passivePending
  /\ status' = "Not listening"
  /\ analysis' = NoAnalysis
  /\ syncStatus' = "Stopped"
  /\ consecutiveDetection' = 0
  /\ hasPreamble' = FALSE
  /\ uStatus' = "Not listening"
  /\ lastOp' = "stopListening"
  /\ pendingFrames' = framesAfterCancel
  /\ animationFrameRef' = "null"
  /\ effectDue' = TRUE
  /\ microphone' = FALSE
  /\ analyser' = FALSE
  /\ UNCHANGED <<receivedMessage, binaryBuffer, sinceDetection, timers, emitted,
                 uBuffer, uSince, uEmitted, uReceivedMessage, txVars, playRemaining,
                 pos, liveStreams, startsPending, waveRemaining, snapVars, probeVars,
                 mounted, appVars, txEffectDue>>
  /\ rxEffectDue' = (rxEffectDue \/ status' # status)

\* clearReceived (the Clear button is rendered only with a received message)
clearReceived ==
  /\ ~stopFlush
  /\ mounted
  /\ receivedMessage # <<>>
  /\ receivedMessage' = <<>>
  /\ syncStatus' = "Waiting for signal..."
  /\ binaryBuffer' = <<>>
  /\ hasPreamble' = FALSE
  /\ consecutiveDetection' = 0
  /\ status' = IF isListening THEN "Listening for signals..." ELSE status
  /\ lastOp' = "clearReceived"
  /\ UNCHANGED <<isListening, analysis, sinceDetection, timers, emitted,
                 uVars, txVars, playRemaining, pos, pendingFrames, animationFrameRef,
                 micVars, waveRemaining, snapVars, probeVars, lifeVars, appVars,
                 txEffectDue>>
  /\ rxEffectDue' = (rxEffectDue \/ status' # status)
  /\ effectDue' = (effectDue \/ loopDepsChanged)

\* clearReceived of the unframed variant
clearReceivedUnframed ==
  /\ mounted
  /\ uReceivedMessage # <<>>
  /\ uReceivedMessage' = <<>>
  /\ uBuffer' = <<>>
  /\ uStatus' = IF isListening THEN "Listening for signals..." ELSE uStatus
  /\ lastOp' = "clearReceivedUnframed"
  /\ UNCHANGED <<rxVars, uSince, uEmitted, txVars, playRemaining, pos, loopVars,
                 micVars, waveRemaining, snapVars, probeVars, lifeVars, appVars,
                 statusEffects>>

\* AudioUtils.cleanup(): stopListening() of AudioUtils, which disconnects and
\* drops the microphone and the analyser (the stream's tracks stay live), and
\* the close of the audio context.
cleanup ==
  /\ microphone' = FALSE
  /\ analyser' = FALSE

\* The unmount of the Receiver: the cleanup of its mount effect calls
\* AudioUtils.cleanup() and cancels the frame the ref holds.  No state is set.
\* App renders the Receiver unconditionally, so it is unmounted only with
\* the whole App; the action is part of the specifications of the Receiver
\* alone, which have no Transmitter and no App state to remove.
unmount ==
  /\ ~stopFlush
  /\ mounted
  /\ mounted' = FALSE
  /\ cleanup
  /\ pendingFrames' = framesAfterCancel
  /\ animationFrameRef' = IF animationFrameRef = "null" THEN "null" ELSE "stale"
  /\ lastOp' = "unmount"
  /\ UNCHANGED <<rxVars, uVars, txVars, playRemaining, pos, effectDue, liveStreams,
                 startsPending, renderedListening, waveRemaining, snapVars, probeVars, appVars,
                 statusEffects>>

\* useEffect(() => onStatusChange?.(status), [status, onStatusChange]) of the
\* Receiver, with handleReceiverStatusChange as the callback.  After a Stop
\* click that found the effects of the listening render pending, the effect
\* runs within staleLoopEffect first; the effect of the render of the click
\* runs after the cleanup of the loop effect.
rxStatusEffect ==
  /\ mounted
  /\ rxEffectDue \/ uReceiverStatus # uStatus
  /\ ~stopFlush
  /\ receiverStatus' = status
  /\ uReceiverStatus' = uStatus
  /\ uActivityLog' = IF includesError(uStatus)
                     THEN addToLog(uActivityLog, "error", uStatus)
                     ELSE uActivityLog
  /\ activityLog' = IF includesError(status)
                    THEN addToLog(activityLog, "error", status)
                    ELSE activityLog
  /\ history' = IF includesError(status)
                THEN historyAfter("error", status)
                ELSE history
  /\ LET rendered == receiverStatus # status \/ includesError(status)
     IN /\ rxEffectDue' = rendered
        /\ txEffectDue' = (txEffectDue \/ rendered)
        /\ effectDue' = (effectDue \/ rendered)
  /\ lastOp' = "rxStatusEffect"
  /\ UNCHANGED <<rxVars, uVars, txVars, playRemaining, pos, pendingFrames,
                 animationFrameRef, micVars, waveRemaining, snapVars, probeVars, lifeVars,
                 transmitterStatus, sentSinceComplete>>

\* A status set by the loop is rendered, and reported by the status effect,
\* the first effect of that render, before the next frame and before the run
\* of the loop by the loop effect of that render (the cleanup of the loop
\* effect comes before both).  An unmounted Receiver has no effects.
statusReported ==
  \/ ~mounted
  \/ /\ ~rxEffectDue \/ receiverStatus = status
     /\ uReceiverStatus = uStatus

(***************************************************************************)
(* Free symbol input: at every tick the analyser may report any decision,  *)
(* any of DtSet ms after the previous event.  The accepted bit sequences   *)
(* are all those of at most MaxBits bits and the prefixes of LongInputs.   *)
(* The microphone is granted at every start; the starts that fail are part *)
(* of SpecErr.                                                             *)
(***************************************************************************)
Qualities == {80, 81}
Analyses ==
  {NoAnalysis, [detected |-> TRUE, bit |-> <<>>, quality |-> 80]}
  \cup {[detected |-> TRUE, bit |-> <<b>>, quality |-> q] : b \in Bit, q \in Qualities}
DtSet == {100, 150, 250}

isPrefix(s, t) == Len(s) <= Len(t) /\ SubSeq(t, 1, Len(s)) = s

LongInputs == {buildFrame(<<65>>) \o <<b>> : b \in Bit}

inputAllowed(a) ==
  LET buffer == binaryBuffer \o a.bit
  IN \/ Len(buffer) <= MaxBits
     \/ \E s \in LongInputs : isPrefix(buffer, s)

ListenTick ==
  \E a \in Analyses, dt \in DtSet :
    /\ statusReported
    /\ inputAllowed(a)
    /\ Len(emitted) < MaxEmitted \/ a.bit = <<>>
    /\ listenLoop(a, dt)
    /\ UNCHANGED <<uVars, uAppVars, pos>>

EffectRun ==
  \E a \in Analyses :
    /\ isListening => statusReported
    /\ isListening => (inputAllowed(a) /\ (Len(emitted) < MaxEmitted \/ a.bit = <<>>))
    /\ loopEffect(a)
    /\ UNCHANGED <<uVars, uAppVars, pos>>

Next ==
  \/ startListening
  \/ startListeningGranted
  \/ renderReceiver
  \/ stopListening
  \/ staleLoopEffect
  \/ clearReceived
  \/ ListenTick
  \/ EffectRun
  \/ rxStatusEffect
  \/ TimerFire
  \/ unmount

Spec == Init /\ [][Next]_vars

(***************************************************************************)
(* Transmitter.                                                            *)
(***************************************************************************)

\* Code units that String.prototype.trim removes.
isWhitespace(c) ==
  c \in {9, 10, 11, 12, 13, 32, 160, 5760, 8232, 8233, 8239, 8287, 12288, 65279}
  \/ (c >= 8192 /\ c <= 8202)

\* message.trim() is the empty string
trimsToEmpty(text) == \A i \in 1..Len(text) : isWhitespace(text[i])

\* The sound of the synthesized buffer: the leading silence, then one slot
\* per frame bit (the rest of the buffer is left at zero).
waveDuration(f) == LeadingSilence + Len(f) * BIT_DURATION_MS

(***************************************************************************)
(* Synthesis.  Sample positions are IEEE 754 doubles.  BIT_DURATION is the *)
(* double nearest to 0.2 (second definition) or 0.1 (first definition):    *)
(* C * 2^-54 or C * 2^-55 with the 52-bit significand C = (2^54 + 1) / 5.  *)
(* A position is kept as the integer it would be in exact arithmetic plus  *)
(* the rounding error left by the multiplications and the addition, in     *)
(* units in the last place; the error is computed from the low bits of the *)
(* exact products.                                                         *)
(***************************************************************************)

\* The integer nearest to a / b, b > 0, a tie going to the even integer
\* (the rounding of every IEEE 754 operation).
roundHalfEven(a, b) ==
  LET q == a \div b
      r == a % b
  IN IF 2 * r < b THEN q
     ELSE IF 2 * r > b THEN q + 1
     ELSE IF q % 2 = 0 THEN q ELSE q + 1

\* The significand C of BIT_DURATION modulo m, a power of two: 5 * C = 2^54 + 1.
significandMod(m) == CHOOSE c \in 0..(m - 1) : (5 * c) % m = 1

\* The bits that i * C has beyond the 53 a double keeps.
droppedBits(i) == IF 4 * i < 5 THEN 0 ELSE exponentOf((4 * i) \div 5)

\* i * BIT_DURATION: the error of the rounded product over i / 5 (i / 10),
\* in units of 2^-54 / 5 (2^-55 / 5).
timesBitDuration(i) ==
  LET t == droppedBits(i)
      low2 == (i * significandMod(pow2(t + 1))) % pow2(t + 1)
      low == low2 % pow2(t)
      up == IF 2 * low > pow2(t) \/ (2 * low = pow2(t) /\ low2 >= pow2(t))
            THEN 1 ELSE 0
  IN i + 5 * (up * pow2(t) - low)

\* const duration = frame.length * BIT_DURATION + 1.0 for a frame of n bits:
\* the error of the rounded sum over (n + 5) / 5, in units of 2^-54 / 5.
durationError(n) ==
  LET k == exponentOf((n + 5) \div 5)
      m == 52 - k
      r0 == ((n + 5) * pow2(m % 4)) % 5
      x == ((n + 5) * pow2(((m - 1) % 4) + 1)) % 10
      q0odd == ((x - r0) \div 5) % 2
      Q == 5 * pow2(k + 2)
      R == r0 * pow2(k + 2) + timesBitDuration(n)
      q == R \div Q
      r == R % Q
      rn == IF 2 * r < Q THEN q
            ELSE IF 2 * r > Q THEN q + 1
            ELSE IF (q0odd + q) % 2 = 0 THEN q ELSE q + 1
  IN Q * rn - r0 * pow2(k + 2)

\* duration * perSecond as an integer (the length of a buffer, the delay of a
\* timer): the rounded product, truncated.
scaledDuration(n, perSecond) ==
  LET exact == (n + 5) * (perSecond \div 5)
      ulps == roundHalfEven(durationError(n) * (perSecond \div 5),
                            pow2(exponentOf(exact) + 2))
  IN IF ulps < 0 THEN exact - 1 ELSE exact

\* duration * 1000 of transmitText, the delay of the timer that resolves its
\* promise: one symbol per frame bit plus 1 s.
playDuration(f) == scaledDuration(Len(f), 1000)

\* silentSamples + i * BIT_DURATION * SAMPLE_RATE with BIT_DURATION the double
\* C * 2^-(54 + shift): the position is whole + ulps * 2^(exponentOf(whole) - 52).
samplePosition(i, shift, silent) ==
  LET perBit == SAMPLE_RATE \div (5 * pow2(shift))
      whole == silent + i * perBit
  IN IF i = 0 THEN [whole |-> silent, ulps |-> 0]
     ELSE LET e2 == exponentOf(i * perBit)
              n2 == roundHalfEven((SAMPLE_RATE \div 5) * timesBitDuration(i),
                                  pow2(e2 + 2 + shift))
          IN [whole |-> whole,
              ulps |-> roundHalfEven(n2, pow2(exponentOf(whole) - e2))]

\* const silentSamples = 0.5 * AudioUtils.SAMPLE_RATE
silentSamples == (LeadingSilence * SAMPLE_RATE) \div 1000

\* bit === '0' ? AudioUtils.FREQ_0 : AudioUtils.FREQ_1 (second definition)
frequencyOf(bit) == IF bit = 0 THEN FREQ_0 ELSE FREQ_1

\* bit === '0' ? AudioUtils.FREQ_0 : AudioUtils.FREQ_1 (first definition)
frequencyOfFirst(bit) == IF bit = 0 THEN FIRST_FREQ_0 ELSE FIRST_FREQ_1

\* The first whole number among sample = startSample, startSample + 1, ...
\* below end.  A start that is not whole stays off the integers while the
\* increments are exact; where they pass the next power of two the units in
\* the last place double and the sum is rounded, to a whole number when the
\* error was one unit.
firstWholeSample(startSample, end) ==
  IF startSample.ulps = 0 THEN startSample.whole
  ELSE LET power == pow2(exponentOf(startSample.whole) + 1)
           crossed == IF startSample.ulps > 0 THEN power ELSE power + 1
       IN IF crossed < end /\ roundHalfEven(startSample.ulps, 2) = 0
          THEN crossed
          ELSE end

\* The inner loop for one bit: data_buffer[sample] = ... for sample =
\* startSample, startSample + 1, ... below endSample and the buffer length.
\* An assignment at an index that is not an integer, or beyond the length,
\* leaves a Float32Array as it is.
slotOf(frequency, startSample, samples, length) ==
  LET end == Min(startSample.whole + samples, length)
  IN [from |-> Min(firstWholeSample(startSample, end), end),
      to |-> end,
      frequency |-> frequency]

\* The buffer filled by transmitText (second definition) for the frame f.
synthesize(f) ==
  LET samples == (BIT_DURATION_MS * SAMPLE_RATE) \div 1000
      length == scaledDuration(Len(f), SAMPLE_RATE)
  IN [length |-> length,
      slots |-> [j \in 1..Len(f) |->
                  slotOf(frequencyOf(f[j]),
                         samplePosition(j - 1, BitDurationShift, silentSamples),
                         samples, length)]]

\* The buffer filled by transmitText (first definition) for the bits of the
\* text: no silence, no markers, a buffer of duration * SAMPLE_RATE samples,
\* truncated.
synthesizeFirst(binary) ==
  LET samples == (FIRST_BIT_DURATION_MS * SAMPLE_RATE) \div 1000
      duration == samplePosition(Len(binary), FirstBitDurationShift, 0)
      length == IF duration.ulps < 0 THEN duration.whole - 1 ELSE duration.whole
  IN [length |-> length,
      slots |-> [j \in 1..Len(binary) |->
                  slotOf(frequencyOfFirst(binary[j]),
                         samplePosition(j - 1, FirstBitDurationShift, 0),
                         samples, length)]]

\* onChange of the textarea (disabled while transmitting)
setMessage(text) ==
  /\ ~renderedTransmitting
  /\ message' = text
  /\ lastOp' = "setMessage"
  /\ UNCHANGED <<rxVars, uVars, isTransmitting, txStatus, frame, data_buffer,
                 readyTimers, inProgress, renderedTransmitting, txPhase,
                 playRemaining, pos, loopVars, micVars, waveRemaining, snapVars,
                 probeVars, lifeVars, appVars, statusEffects>>

\* The render left to React's scheduler: isTransmitting stays as rendered.
renderedStale == renderedTransmitting

\* A click or a key press is a discrete event: the state set by its handler
\* is rendered before the next event is dispatched, so after
\* setIsTransmitting(true) the next event sees isTransmitting = true.
renderedAfterEntry == TRUE

\* disabled of the Transmit button
transmitDisabled == renderedTransmitting \/ trimsToEmpty(message)

\* handleTransmit up to `await audioUtilsRef.current.initAudioContext()`:
\* the handler returns to the event loop while the audio context is made.
handleTransmit ==
  /\ ~trimsToEmpty(message)
  /\ isTransmitting' = TRUE
  /\ inProgress' = inProgress + 1
  /\ renderedTransmitting' = renderedAfterEntry
  /\ txPhase' = "init"
  /\ txStatus' = "Initializing audio..."
  /\ lastOp' = "handleTransmit"
  /\ UNCHANGED <<rxVars, uVars, message, frame, data_buffer, playRemaining,
                 waveRemaining, pos, pendingFrames, animationFrameRef, micVars,
                 snapVars, probeVars, lifeVars, readyTimers, appVars, rxEffectDue>>
  /\ effectDue' = (effectDue \/ loopDepsChanged)
  /\ txEffectDue' = (txEffectDue \/ txStatus' # txStatus)

\* onClick of the Transmit button
clickTransmit ==
  /\ ~transmitDisabled
  /\ handleTransmit

\* onKeyPress of the textarea (disabled while transmitting) with the Enter
\* key and no Shift: handleTransmit is called and returns at once on a blank
\* message.
handleKeyPress ==
  /\ ~renderedTransmitting
  /\ IF trimsToEmpty(message)
     THEN /\ lastOp' = "handleKeyPress"
          /\ UNCHANGED <<rxVars, uVars, txVars, playRemaining, pos, loopVars,
                         micVars, waveRemaining, snapVars, probeVars, lifeVars,
                         appVars, statusEffects>>
     ELSE handleTransmit

\* handleTransmit from the audio context to `await transmitText(message)`:
\* the status is set and transmitText is entered, which returns to the event
\* loop at its own `await this.initAudioContext()`.
transmitStart ==
  /\ txPhase = "init"
  /\ txPhase' = "starting"
  /\ txStatus' = "Transmitting signal..."
  /\ lastOp' = "transmitStart"
  /\ UNCHANGED <<rxVars, uVars, message, isTransmitting, frame, data_buffer,
                 inProgress, renderedTransmitting, playRemaining, waveRemaining,
                 pos, pendingFrames, animationFrameRef, micVars, snapVars,
                 probeVars, lifeVars, readyTimers, appVars, rxEffectDue>>
  /\ effectDue' = (effectDue \/ loopDepsChanged)
  /\ txEffectDue' = (txEffectDue \/ txStatus' # txStatus)

\* transmitText (second definition) after its await: the buffer is filled,
\* its playback started and the timer set that resolves the promise.
transmitText ==
  /\ txPhase = "starting"
  /\ txPhase' = "playing"
  /\ frame' = buildFrame(message)
  /\ data_buffer' = synthesize(buildFrame(message))
  /\ playRemaining' = playDuration(buildFrame(message))
  /\ waveRemaining' = waveDuration(buildFrame(message))
  /\ pos' = 0
  /\ lastOp' = "transmitText"
  /\ UNCHANGED <<rxVars, uVars, message, isTransmitting, txStatus, inProgress,
                 renderedTransmitting, loopVars, micVars, snapVars, probeVars,
                 lifeVars, readyTimers, appVars, statusEffects>>

\* handleTransmit when initAudioContext rejects (no AudioContext can be
\* made): the catch branch and the finally block.
transmitFailed ==
  /\ txPhase = "init"
  /\ txPhase' = "idle"
  /\ isTransmitting' = FALSE
  /\ inProgress' = inProgress - 1
  /\ txStatus' = "Error: AudioContext unavailable"
  /\ readyTimers' = readyTimers \cup {ErrorDelay}
  /\ lastOp' = "transmitFailed"
  /\ UNCHANGED <<rxVars, uVars, message, frame, data_buffer, renderedTransmitting,
                 playRemaining, waveRemaining, pos, pendingFrames,
                 animationFrameRef, micVars, snapVars, probeVars, lifeVars, appVars,
                 rxEffectDue>>
  /\ effectDue' = (effectDue \/ loopDepsChanged)
  /\ txEffectDue' = (txEffectDue \/ txStatus' # txStatus)

\* The sound played by the first definition of transmitText: one slot per
\* bit of the text, no markers, no silence.
waveDurationFirst(text) == Len(textToBinary(text)) * FIRST_BIT_DURATION_MS

\* transmitText (first definition) after its await: the buffer is filled and
\* its playback started, and the promise resolves at once.
transmitTextFirst ==
  /\ txPhase = "starting"
  /\ txPhase' = "returned"
  /\ waveRemaining' = waveDurationFirst(message)
  /\ data_buffer' = synthesizeFirst(textToBinary(message))
  /\ lastOp' = "transmitTextFirst"
  /\ UNCHANGED <<rxVars, uVars, message, isTransmitting, txStatus, frame,
                 inProgress, renderedTransmitting, playRemaining, pos, loopVars,
                 micVars, snapVars, probeVars, lifeVars, readyTimers, appVars,
                 statusEffects>>

\* handleTransmit after `await transmitText(message)` with the first
\* definition of transmitText, which has returned as soon as the playback
\* was started: the handler runs to its end.
handleTransmitFirst ==
  /\ txPhase = "returned"
  /\ txPhase' = "idle"
  /\ isTransmitting' = FALSE
  /\ inProgress' = inProgress - 1
  /\ txStatus' = "Transmission complete"
  /\ readyTimers' = readyTimers \cup {ReadyDelay}
  /\ sentSinceComplete' = 0
  /\ lastOp' = "handleTransmitFirst"
  /\ UNCHANGED <<rxVars, uVars, message, frame, data_buffer, playRemaining, pos,
                 waveRemaining, renderedTransmitting, pendingFrames,
                 animationFrameRef, micVars, snapVars, probeVars, lifeVars,
                 transmitterStatus, receiverStatus, activityLog, history,
                 uAppVars, rxEffectDue>>
  /\ effectDue' = (effectDue \/ loopDepsChanged)
  /\ txEffectDue' = (txEffectDue \/ txStatus' # txStatus)

\* handleTransmit after transmitText's promise has resolved
transmitComplete ==
  /\ txPhase = "playing"
  /\ playRemaining = 0
  /\ txPhase' = "idle"
  /\ isTransmitting' = FALSE
  /\ inProgress' = inProgress - 1
  /\ txStatus' = "Transmission complete"
  /\ readyTimers' = readyTimers \cup {ReadyDelay}
  /\ sentSinceComplete' = 0
  /\ lastOp' = "transmitComplete"
  /\ UNCHANGED <<rxVars, uVars, message, frame, data_buffer, playRemaining, pos,
                 pendingFrames, animationFrameRef, micVars, waveRemaining,
                 snapVars, probeVars, lifeVars, renderedTransmitting,
                 transmitterStatus, receiverStatus, activityLog, history,
                 uAppVars, rxEffectDue>>
  /\ effectDue' = (effectDue \/ loopDepsChanged)
  /\ txEffectDue' = (txEffectDue \/ txStatus' # txStatus)

\* The earliest pending setTimeout(() => setStatus('Ready to transmit'), ...)
\* fires: when it is due while the receiver listens, otherwise after the
\* time left; no other timer is due before it.
readyTimerFire ==
  /\ readyTimers # {}
  /\ ~microtaskPending
  /\ LET due == CHOOSE d \in readyTimers : \A e \in readyTimers : d <= e
     IN /\ due = 0 \/ ~isListening \/ ~mounted
        /\ txPhase # "playing" \/ due <= playRemaining
        /\ \A r \in timers : due <= r
        /\ readyTimers' = {r - due : r \in readyTimers \ {due}}
        /\ timers' = timersAfter(due)
        /\ playRemaining' = playAfter(due)
        /\ waveRemaining' = waveAfter(due)
        /\ sinceDetection' = gapAfter(due)
        /\ uSince' = Min(uSince + due, GapCap)
  /\ txStatus' = "Ready to transmit"
  /\ txEffectDue' = (txEffectDue \/ txStatus' # txStatus)
  /\ lastOp' = "readyTimer"
  /\ UNCHANGED <<isListening, status, syncStatus, receivedMessage, analysis,
                 binaryBuffer, consecutiveDetection, hasPreamble, emitted,
                 uStatus, uBuffer, uEmitted, uReceivedMessage, message,
                 isTransmitting, frame, data_buffer, inProgress,
                 renderedTransmitting, txPhase, pos, loopVars,
                 micVars, snapVars, probeVars, lifeVars, appVars, rxEffectDue>>

(***************************************************************************)
(* Replay: the text typed into the transmitter is framed and played, and   *)
(* the listening receiver hears the frame as exact symbol decisions, one   *)
(* symbol per listen-loop step, followed by ExtraSymbols further symbols   *)
(* and by silence.                                                         *)
(***************************************************************************)
Alphabet == {1, 3, 32, 65, 104, 105, 256}

RECURSIVE TextsOfLen(_)
TextsOfLen(n) ==
  IF n = 0 THEN {<<>>}
  ELSE {Append(t, c) : t \in TextsOfLen(n - 1), c \in Alphabet}

Texts == UNION {TextsOfLen(n) : n \in 0..MaxLen}

exactDecision(b) == [detected |-> TRUE, bit |-> <<b>>, quality |-> 100]

TypeMessage ==
  \E text \in Texts :
    /\ message = <<>>
    /\ frame = <<>>
    /\ setMessage(text)

\* One transmission, of either definition of transmitText.
Transmit ==
  /\ data_buffer = NoBuffer
  /\ txStatus = "Ready to transmit"
  /\ startsPending = 0
  /\ clickTransmit

\* One click on Start Listening.
StartListening ==
  /\ startsPending = 0
  /\ liveStreams = 0
  /\ txPhase \in {"idle", "playing"}
  /\ startListening

ReplaySymbol ==
  /\ statusReported
  /\ frame # <<>>
  /\ pos < Len(frame) + ExtraSymbols
  /\ \E b \in Bit :
       /\ pos < Len(frame) => b = frame[pos + 1]
       /\ listenLoop(exactDecision(b), BIT_DURATION_MS)
       /\ listenLoopUnframed(exactDecision(b), BIT_DURATION_MS)
  /\ pos' = pos + 1

SilenceTick ==
  /\ statusReported
  /\ frame # <<>>
  /\ pos >= Len(frame)
  /\ playRemaining > 0 \/ timers # {} \/ readyTimers # {}
  /\ listenLoop(NoAnalysis, BIT_DURATION_MS)
  /\ listenLoopUnframed(NoAnalysis, BIT_DURATION_MS)
  /\ UNCHANGED pos

\* The loop effect during the replay: its direct run of the loop falls
\* between two symbols and analyses silence.
ReplayEffect ==
  /\ isListening => statusReported
  /\ loopEffect(NoAnalysis)
  /\ UNCHANGED <<uVars, uAppVars, pos>>

NextRT ==
  \/ TypeMessage
  \/ StartListening
  \/ startListeningGranted
  \/ renderReceiver
  \/ ReplayEffect
  \/ rxStatusEffect
  \/ Transmit
  \/ transmitStart
  \/ transmitText
  \/ transmitTextFirst
  \/ handleTransmitFirst
  \/ ReplaySymbol
  \/ SilenceTick
  \/ transmitComplete
  \/ TimerFire
  \/ readyTimerFire

SpecRT == Init /\ [][NextRT]_vars

(***************************************************************************)
(* A long input without a preamble, heard as exact symbol decisions.       *)
(***************************************************************************)
NoPreambleRuns ==
  {[i \in 1..(BufferCap + 1) |-> 0],
   [i \in 1..(BufferCap + 1) |-> 1],
   [i \in 1..(BufferCap + 1) |-> i % 2]}

LongTick ==
  \E b \in Bit :
    /\ statusReported
    /\ \E run \in NoPreambleRuns : isPrefix(binaryBuffer \o <<b>>, run)
    /\ listenLoop(exactDecision(b), BIT_DURATION_MS)
    /\ listenLoopUnframed(exactDecision(b), BIT_DURATION_MS)
    /\ UNCHANGED pos

NextLong ==
  \/ StartListening
  \/ startListeningGranted
  \/ renderReceiver
  \/ ReplayEffect
  \/ rxStatusEffect
  \/ LongTick

SpecLong == Init /\ [][NextLong]_vars

(***************************************************************************)
(* Snapshots: the analyser is polled on any snapshot whose carrier bins,   *)
(* neighbouring bins and remaining bins take the bytes below, and on       *)
(* snapshots where an exact quotient falls on a threshold.                 *)
(***************************************************************************)
CarrierLevels == {0, 60, 255}
SideLevels == {0, 60, 200}
NoiseLevels == {0, 60, 200}

\* Snapshots whose energies differ by exactly 0.3 of their sum, or by
\* exactly 40, and snapshots whose exact quality is a whole number and a half.
TieSnapshots ==
  {[c0 |-> 251, w0 |-> 60, c1 |-> 251, w1 |-> 13, n |-> 0],
   [c0 |-> 251, w0 |-> 13, c1 |-> 251, w1 |-> 60, n |-> 0],
   [c0 |-> 252, w0 |-> 62, c1 |-> 252, w1 |-> 14, n |-> 0],
   [c0 |-> 50, w0 |-> 20, c1 |-> 90, w1 |-> 60, n |-> 0],
   [c0 |-> 51, w0 |-> 20, c1 |-> 91, w1 |-> 60, n |-> 0],
   [c0 |-> 1, w0 |-> 50, c1 |-> 0, w1 |-> 0, n |-> 39],
   [c0 |-> 4, w0 |-> 95, c1 |-> 0, w1 |-> 0, n |-> 79],
   [c0 |-> 4, w0 |-> 165, c1 |-> 0, w1 |-> 0, n |-> 79]}

Snapshots ==
  [c0 : CarrierLevels, w0 : SideLevels, c1 : CarrierLevels, w1 : SideLevels,
   n : NoiseLevels] \cup TieSnapshots

\* The snapshots with the result of analyzeSpectrum on each, with an analyser.
spectrumOf == {[dataArray |-> d, result |-> analyzeSpectrum(TRUE, d)] : d \in Snapshots}

SpectrumTick ==
  \E s \in spectrumOf :
    /\ statusReported
    /\ dataArray' = s.dataArray
    /\ spectrumResult' = IF analyser THEN s.result
                         ELSE analyzeSpectrum(analyser, s.dataArray)
    /\ lastOp' = "analyzeSpectrum"
    /\ UNCHANGED <<rxVars, uVars, txVars, playRemaining, pos, loopVars, micVars,
                   waveRemaining, probeVars, lifeVars, appVars, statusEffects>>

NextSpectrum ==
  \/ startListening
  \/ startListeningGranted
  \/ renderReceiver
  \/ stopListening
  \/ staleLoopEffect
  \/ ReplayEffect
  \/ rxStatusEffect
  \/ SpectrumTick

SpecSpectrum == Init /\ [][NextSpectrum]_vars

(***************************************************************************)
(* On the air: the played buffer is heard by the listening receiver at     *)
(* every animation frame; the result of analyzeSpectrum at a tick is the   *)
(* exact symbol of the tone that the buffer holds at that moment, or NONE  *)
(* where it is silent.  The unframed Receiver reads its fields detectedBit *)
(* and signalQuality, the framed Receiver the fields bit and quality.      *)
(***************************************************************************)

\* The bit whose tone the buffer holds ms after the start of the playback.
toneAt(buffer, ms) ==
  LET sample == (ms * SAMPLE_RATE) \div 1000
      hits == {j \in 1..Len(buffer.slots) :
                 buffer.slots[j].from <= sample /\ sample < buffer.slots[j].to}
  IN IF hits = {} THEN <<>>
     ELSE <<IF buffer.slots[CHOOSE j \in hits : TRUE].frequency = FREQ_1 THEN 1 ELSE 0>>

\* The decision on the snapshot taken when `left` ms of the sound remain.
decisionAt(left) ==
  LET tone == toneAt(data_buffer, waveDuration(frame) - left)
  IN IF tone = <<>> \/ left = 0 THEN NoAnalysis ELSE exactDecision(tone[1])

AirTexts == TextsOfLen(1)

AirType ==
  \E text \in AirTexts :
    /\ message = <<>>
    /\ frame = <<>>
    /\ setMessage(text)

\* What the framed Receiver reads of a result of analyzeSpectrum (second
\* definition): the result has the fields detectedBit and signalQuality and
\* no field bit or quality, so analysis.bit and analysis.quality are
\* undefined: no symbol, and a quality above no threshold.
framedReading(a) == [detected |-> a.detected, bit |-> <<>>, quality |-> 0]

AirTick ==
  /\ statusReported
  /\ frame # <<>>
  /\ waveRemaining > 0
  /\ listenLoop(framedReading(decisionAt(waveAfter(FrameInterval))), FrameInterval)
  /\ listenLoopUnframed(decisionAt(waveAfter(FrameInterval)), FrameInterval)
  /\ UNCHANGED pos

\* The loop effect while the sound is played: its direct run of the loop
\* analyses the tone of that moment.
AirEffect ==
  /\ isListening => statusReported
  /\ loopEffect(framedReading(decisionAt(waveRemaining)))
  /\ IF isListening
     THEN listenLoopUnframed(decisionAt(waveRemaining), 0)
     ELSE UNCHANGED uVars
  /\ UNCHANGED pos

NextAir ==
  \/ AirType
  \/ StartListening
  \/ startListeningGranted
  \/ renderReceiver
  \/ AirEffect
  \/ rxStatusEffect
  \/ Transmit
  \/ transmitStart
  \/ transmitText
  \/ AirTick
  \/ clearReceivedUnframed

SpecAir == Init /\ [][NextAir]_vars

(***************************************************************************)
(* Candidates: one pass of the unframed variant's loop over the start      *)
(* offsets, on a buffer made of whole characters followed by up to seven   *)
(* further bits.                                                           *)
(***************************************************************************)
RECURSIVE BitStrings(_)
BitStrings(n) ==
  IF n = 0 THEN {<<>>}
  ELSE {Append(b, x) : b \in BitStrings(n - 1), x \in Bit}

CandidateTexts == TextsOfLen(1) \cup {<<104, 105>>}

CandidateBuffers ==
  {textToBinary(t) \o extra :
     t \in CandidateTexts, extra \in UNION {BitStrings(n) : n \in 0..MaxTrailing}}

\* One iteration of the loop over the start offsets.
tryStart(buffer, start) ==
  /\ candidate' = [buffer |-> buffer, start |-> start,
                   remaining |-> substringFrom(buffer, start),
                   decoded |-> candidateAt(buffer, start)]
  /\ lastOp' = "tryStart"
  /\ UNCHANGED <<rxVars, uVars, txVars, playRemaining, pos, loopVars, micVars,
                 waveRemaining, snapVars, appVars, statusEffects, lifeVars>>

TryFirstStart ==
  \E buffer \in CandidateBuffers :
    /\ candidate = NoCandidate
    /\ tryStart(buffer, 0)

TryNextStart ==
  /\ candidate # NoCandidate
  /\ candidate.start < MaxStart
  /\ tryStart(candidate.buffer, candidate.start + 1)

NextCandidates ==
  \/ TryFirstStart
  \/ TryNextStart

SpecCandidates == Init /\ [][NextCandidates]_vars

(***************************************************************************)
(* The application: the status effects of both components report to App,   *)
(* which keeps the activity log.  Every render of App hands new callbacks  *)
(* to the components.  Three uses: the transmitter alone (SpecApp), the    *)
(* receiver alone in a silent room, its microphone at times unavailable    *)
(* (SpecErr),                                                              *)
(* and both, the transmitter with the first definition of transmitText     *)
(* (SpecLog).                                                              *)
(***************************************************************************)
AppTexts == {<<65>>, <<32>>}

AppType ==
  \E text \in AppTexts :
    /\ message # text
    /\ setMessage(text)

\* useEffect(() => onStatusChange?.(status), [status, onStatusChange]) of the
\* Transmitter, with handleTransmitterStatusChange as the callback.
txStatusEffect ==
  /\ txEffectDue
  /\ transmitterStatus' = txStatus
  /\ activityLog' = IF includesComplete(txStatus)
                    THEN addToLog(activityLog, "sent", "Message transmitted successfully")
                    ELSE IF includesError(txStatus)
                         THEN addToLog(activityLog, "error", txStatus)
                         ELSE activityLog
  /\ uActivityLog' = IF includesComplete(txStatus)
                     THEN addToLog(uActivityLog, "sent", "Message transmitted successfully")
                     ELSE IF includesError(txStatus)
                          THEN addToLog(uActivityLog, "error", txStatus)
                          ELSE uActivityLog
  /\ history' = IF includesComplete(txStatus)
                THEN historyAfter("sent", "Message transmitted successfully")
                ELSE IF includesError(txStatus)
                     THEN historyAfter("error", txStatus)
                     ELSE history
  /\ sentSinceComplete' = IF includesComplete(txStatus)
                          THEN Min(sentSinceComplete + 1, MaxCounted)
                          ELSE sentSinceComplete
  /\ LET rendered == \/ transmitterStatus # txStatus
                      \/ includesComplete(txStatus)
                      \/ includesError(txStatus)
     IN /\ txEffectDue' = rendered
        /\ rxEffectDue' = (rxEffectDue \/ rendered)
        /\ effectDue' = (effectDue \/ rendered)
  /\ lastOp' = "txStatusEffect"
  /\ UNCHANGED <<rxVars, uVars, txVars, playRemaining, pos, pendingFrames,
                 animationFrameRef, micVars, waveRemaining, snapVars, probeVars, lifeVars,
                 receiverStatus, uReceiverStatus>>

\* clearLog: the new empty array renders App.
clearLog ==
  /\ activityLog' = <<>>
  /\ uActivityLog' = <<>>
  /\ history' = <<>>
  /\ txEffectDue' = TRUE
  /\ rxEffectDue' = TRUE
  /\ effectDue' = TRUE
  /\ lastOp' = "clearLog"
  /\ UNCHANGED <<rxVars, uVars, txVars, playRemaining, pos, pendingFrames,
                 animationFrameRef, micVars, waveRemaining, snapVars, probeVars, lifeVars,
                 transmitterStatus, receiverStatus, uReceiverStatus, sentSinceComplete>>

\* The render scheduled by setIsTransmitting(false) of the finally block.
render ==
  /\ renderedTransmitting # isTransmitting
  /\ renderedTransmitting' = isTransmitting
  /\ lastOp' = "render"
  /\ UNCHANGED <<rxVars, uVars, message, isTransmitting, txStatus, frame,
                 data_buffer, readyTimers, inProgress, txPhase, playRemaining, pos,
                 loopVars, micVars, waveRemaining, snapVars, probeVars, lifeVars, appVars,
                 statusEffects>>

\* Time passes, the receiver not listening, until the timer that resolves
\* transmitText's promise is due; no other timer is due before it.
playbackWait ==
  /\ txPhase = "playing"
  /\ playRemaining > 0
  /\ ~isListening
  /\ \A r \in readyTimers \cup timers : playRemaining <= r
  /\ readyTimers' = {r - playRemaining : r \in readyTimers}
  /\ timers' = timersAfter(playRemaining)
  /\ playRemaining' = 0
  /\ waveRemaining' = waveAfter(playRemaining)
  /\ sinceDetection' = gapAfter(playRemaining)
  /\ uSince' = Min(uSince + playRemaining, GapCap)
  /\ lastOp' = "wait"
  /\ UNCHANGED <<isListening, status, syncStatus, receivedMessage, analysis,
                 binaryBuffer, consecutiveDetection, hasPreamble, emitted,
                 uStatus, uBuffer, uEmitted, uReceivedMessage, message,
                 isTransmitting, txStatus, frame, data_buffer, inProgress,
                 renderedTransmitting, txPhase, pos,
                 loopVars, micVars, snapVars, probeVars, lifeVars, appVars, statusEffects>>

\* The audio context cannot be made for a transmission that starts with an
\* empty log.
FirstFails ==
  /\ history = <<>>
  /\ transmitFailed

NextApp ==
  \/ AppType
  \/ clickTransmit
  \/ handleKeyPress
  \/ transmitStart
  \/ transmitText
  \/ FirstFails
  \/ render
  \/ playbackWait
  \/ transmitComplete
  \/ readyTimerFire
  \/ txStatusEffect
  \/ clearLog

SpecApp == Init /\ [][NextApp]_vars

NextErr ==
  \/ startListening
  \/ startListeningGranted
  \/ startListeningDenied
  \/ renderReceiver
  \/ stopListening
  \/ startListeningFailed
  \/ staleLoopEffect
  \/ ReplayEffect
  \/ rxStatusEffect

SpecErr == Init /\ [][NextErr]_vars

\* The effects of a render always run.
SpecErrFair ==
  /\ SpecErr
  /\ WF_vars(rxStatusEffect)
  /\ WF_vars(renderReceiver)
  /\ WF_vars(ReplayEffect)

LogType ==
  /\ message = <<>>
  /\ setMessage(<<65>>)

NextLog ==
  \/ LogType
  \/ Transmit
  \/ transmitStart
  \/ transmitTextFirst
  \/ handleTransmitFirst
  \/ transmitFailed
  \/ txStatusEffect
  \/ StartListening
  \/ startListeningDenied
  \/ rxStatusEffect
  \/ clearLog

SpecLog == Init /\ [][NextLog]_vars

(***************************************************************************)
(* Properties.                                                             *)
(***************************************************************************)

\* The payload bits of the played frame, when the text is single-byte.
payloadOf(f) == SubSeq(f, Len(startMarker) + 1, Len(f) - Len(endMarker))

\* The whole played frame has been heard, and nothing after it.
FrameHeard == frame # <<>> /\ pos = Len(frame)

\* C1: round trip.  Once the frame built for a printable text S has been
\* heard symbol by symbol, exactly S has been delivered, exactly once, and
\* after the pending resets have run no bit of it is left in the buffer.
C1_RoundTrip ==
  (FrameHeard /\ isPrintable(message))
    => /\ emitted = <<message>>
       /\ timers = {} => binaryBuffer = <<>>

\* C2: resync after success.  In the state right after a message has been
\* delivered the bit buffer holds none of the bits of the decoded frame.
C2_BufferConsumedOnEmit ==
  [][emitted' # emitted => binaryBuffer' = <<>>]_vars

\* C3: frame layout.  For a text of single-byte characters the played frame
\* is the start marker, then bit k (k = 1..8, most significant first) of
\* every character in text order, then the end marker; its payload has
\* 8 bits per character.
singleByte(text) == \A i \in 1..Len(text) : text[i] <= 255

C3_FrameLayout ==
  (frame # <<>> /\ singleByte(message))
    => /\ Len(frame) = Len(startMarker) + 8 * Len(message) + Len(endMarker)
       /\ SubSeq(frame, 1, Len(startMarker)) = startMarker
       /\ SubSeq(frame, Len(frame) - Len(endMarker) + 1, Len(frame)) = endMarker
       /\ Len(payloadOf(frame)) % 8 = 0
       /\ \A i \in 1..Len(message) : \A k \in 1..8 :
            frame[Len(startMarker) + 8 * (i - 1) + k]
              = (message[i] \div pow2(8 - k)) % 2

C3_Witness ==
  /\ message = <<104, 105>>
  /\ payloadOf(frame) = <<0,1,1,0,1,0,0,0, 0,1,1,0,1,0,0,1>>

\* C4: a text with a character above code point 255 is refused: the call
\* ends in an error status and no frame is built or played.
C4_WideCharRefused ==
  (lastOp = "transmitText" /\ ~singleByte(message))
    => /\ frame = <<>>
       /\ txStatus = "Error: InputError"
       /\ playRemaining = 0

\* C5: noise rejection.  A listen-loop step whose decision is NONE (nothing
\* detected, or no bit determined) leaves the bit buffer as it is and
\* delivers nothing, and the buffer is empty when a session starts; so a
\* session of NONE decisions keeps the buffer empty and delivers nothing.
C5_NoiseRejected ==
  /\ [][(lastOp' = "listenLoop" /\ ~(analysis'.detected /\ analysis'.bit # <<>>))
         => (binaryBuffer' = binaryBuffer /\ emitted' = emitted
             /\ receivedMessage' = receivedMessage)]_vars
  /\ [](lastOp \in {"init", "startListening"} => binaryBuffer = <<>>)

C5_Witness ==
  /\ lastOp = "listenLoop"
  /\ analysis.detected
  /\ analysis.bit = <<>>
  /\ binaryBuffer = <<>>
  /\ consecutiveDetection = 0

\* C6: partial frame.  When the preamble and three payload bytes have been
\* heard and these bytes contain no terminator, nothing has been delivered
\* and the preamble-found flag is set.
ThreeBytesHeard ==
  /\ frame # <<>>
  /\ pos = Len(startMarker) + 24
  /\ pos <= Len(frame)
  /\ indexOf(SubSeq(frame, Len(startMarker) + 1, pos), endMarker) = -1

C6_PartialFrame ==
  ThreeBytesHeard
    => /\ emitted = <<>>
       /\ hasPreamble
       /\ binaryBuffer = SubSeq(frame, 1, pos)

C6_Witness ==
  /\ ThreeBytesHeard
  /\ message = <<65, 65, 65>>
  /\ lastOp = "listenLoop"

\* The bits after the preamble hold a terminator pattern inside the payload
\* whose candidate payload decodes to a text with a non-printable character.
FalseTerminator ==
  /\ frame # <<>>
  /\ singleByte(message)
  /\ LET rest == substringFrom(frame, Len(startMarker))
         e == indexOf(rest, endMarker)
     IN /\ e < Len(payloadOf(frame))
        /\ ~isPrintable(binaryToText(substring(rest, 0, (e \div 8) * 8)))

\* C7: with a false terminator in the payload, the message ended by the real
\* terminator is the one delivered once the frame has been heard.
C7_RealTerminatorDecoded ==
  (FalseTerminator /\ FrameHeard) => emitted = <<message>>

\* With a false terminator in the payload nothing is ever delivered, neither
\* the prefix nor the message ended by the real terminator, whose payload
\* begins with the same non-printable bytes; the heard bits all stay in the
\* buffer and the preamble-found flag stays set.
C7_FalseTerminatorBlocks ==
  (FalseTerminator /\ pos >= Len(startMarker))
    => /\ emitted = <<>>
       /\ hasPreamble
       /\ Len(binaryBuffer) = pos
       /\ \A i \in 1..Min(pos, Len(frame)) : binaryBuffer[i] = frame[i]

C7_Witness ==
  /\ FalseTerminator
  /\ FrameHeard
  /\ message = <<1, 3>>

\* C8: the bit buffer never holds more than the cap after a listen-loop step.
C8_BufferBound == Len(binaryBuffer) <= BufferCap

\* C9: every message delivered through onMessageReceived is made of
\* printable ASCII characters only, and decoding never ends in an error
\* status.
C9_OnlyPrintableDelivered ==
  /\ \A i \in 1..Len(emitted) : isPrintable(emitted[i])
  /\ \A i \in 1..Len(uEmitted) : isPrintable(uEmitted[i])
  /\ uStatus \in {"Not listening", "Requesting microphone access...",
                  "Listening for signals...", "Received"}
  /\ lastOp = "listenLoop" =>
       status \in {"Listening for signals...", "Received",
                   "Synchronized - receiving message..."}

C9_Witness ==
  /\ ~isPrintable(message)
  /\ FrameHeard
  /\ emitted # <<>>
  /\ emitted[1] # <<>>
  /\ uEmitted # <<>>

\* C10: debounce.  A non-NONE decision is appended only if the previous
\* accepted symbol is less than 150 ms old or its quality is above 80; a
\* decision meeting neither leaves the buffer and the time of the last
\* accepted symbol as they are.
C10_Debounce ==
  [][\A a \in Analyses : \A dt \in DtSet :
       (/\ lastOp' = "listenLoop"
        /\ a.detected /\ a.bit # <<>>
        /\ mounted => analysis' = a
        /\ listenLoop(a, dt))
         => /\ binaryBuffer' # binaryBuffer
                 => (gapAfter(dt) < 150 \/ a.quality > 80)
            /\ ~(gapAfter(dt) < 150 \/ a.quality > 80)
                 => /\ binaryBuffer' = binaryBuffer
                    /\ sinceDetection' = gapAfter(dt)]_vars

C10_Witness ==
  /\ lastOp = "listenLoop"
  /\ analysis.detected
  /\ analysis.bit # <<>>
  /\ analysis.quality <= 80
  /\ sinceDetection >= 150
  /\ binaryBuffer # <<>>

\* C11: in the state right after stopListening the bit buffer is empty, the
\* preamble-found flag is false and the consecutive-detection counter is 0.
C11_StopResets ==
  lastOp = "stopListening"
    => (binaryBuffer = <<>> /\ ~hasPreamble /\ consecutiveDetection = 0)

\* C12: cancellation.  While the receiver is not listening no animation
\* frame of the loop is pending and no step runs the listen loop: no
\* snapshot is analysed, no bit is appended and no message is delivered.
C12_Cancellation ==
  /\ [][~isListening
         => /\ lastOp' # "listenLoop"
            /\ analysis' = analysis
            /\ emitted' = emitted
            /\ Len(binaryBuffer') <= Len(binaryBuffer)]_vars
  /\ [](~isListening => pendingFrames = 0)

\* After stopListening no bit is appended and no message is delivered, and
\* a frame that is pending while the receiver does not listen is never run:
\* the next steps are the render of the click and its effect, which cancels
\* the frame.
C12_NothingAcceptedAfterStop ==
  [][~isListening
       => /\ emitted' = emitted
          /\ Len(binaryBuffer') <= Len(binaryBuffer)
          /\ pendingFrames > 0
               => \/ /\ lastOp' = "effect"
                     /\ pendingFrames' = 0
                  \/ UNCHANGED <<lastOp, pendingFrames, analysis, sinceDetection>>]_vars

\* The run of the loop after stopListening: the receiver does not listen and
\* a frame has just been requested.
C12_LateRun ==
  /\ ~isListening
  /\ lastOp = "listenLoop"
  /\ pendingFrames = 1
  /\ animationFrameRef = "pending"

\* C13: the bit buffer and the preamble-found flag are changed only by a
\* listen-loop step or by an explicit start, stop or clear, never by a timer
\* or another callback.
C13_DecoderStateOwned ==
  [][(binaryBuffer' # binaryBuffer \/ hasPreamble' # hasPreamble)
       => lastOp' \in {"listenLoop", "startListening", "stopListening",
                       "clearReceived"}]_vars

\* C15 (a): the synchronization is announced exactly on the step that makes
\* the preamble appear in the buffer, and sets the flag.
C15_SyncOnFirstPreamble ==
  [][(hasPreamble' /\ ~hasPreamble)
       <=> /\ lastOp' = "listenLoop"
           /\ binaryBuffer' # binaryBuffer
           /\ indexOf(binaryBuffer', startMarker) # -1
           /\ indexOf(binaryBuffer, startMarker) = -1]_vars

\* C15 (b): a message is delivered only from SYNCHRONIZED.
C15_EmitFromSynchronized ==
  [][emitted' # emitted => hasPreamble]_vars

\* C15 (c): a symbol processed after a delivery, with no reset in between,
\* finds the synchronizer back in SEARCHING.
C15_SearchingAfterEmit ==
  [][(lastOp' = "listenLoop" /\ binaryBuffer' # binaryBuffer
        /\ syncStatus = "Message received successfully!")
       => ~hasPreamble]_vars

\* C15: the synchronizer's state machine SEARCHING -> SYNCHRONIZED -> emit
\* -> SEARCHING: (a), (b) and (c) together.
C15_SyncStateMachine ==
  /\ C15_SyncOnFirstPreamble
  /\ C15_EmitFromSynchronized
  /\ C15_SearchingAfterEmit

\* C14: resource release.  Whenever the receiver is not listening (before
\* the first session, after stopListening, after a failed startListening) no
\* source node, analyser or captured media stream is held, however many
\* sessions were run.
C14_ResourcesReleased ==
  ~isListening => (~microphone /\ ~analyser /\ liveStreams = 0)

\* C16: a listen-loop run on a NONE decision sets the counter to 0 if more
\* than 200 ms have passed since the last accepted symbol and leaves it as
\* it is otherwise; it leaves the buffer and the time of the last accepted
\* symbol as they are.
C16_NoSignalCounter ==
  [][\A a \in Analyses : \A dt \in DtSet \cup {0} :
       (/\ lastOp' = "listenLoop"
        /\ ~(a.detected /\ a.bit # <<>>)
        /\ mounted => analysis' = a
        /\ listenStep(a, dt))
         => /\ gapAfter(dt) > 200 => consecutiveDetection' = 0
            /\ gapAfter(dt) <= 200 => consecutiveDetection' = consecutiveDetection
            /\ binaryBuffer' = binaryBuffer
            /\ sinceDetection' = gapAfter(dt)]_vars

C16_Witness ==
  /\ lastOp = "listenLoop"
  /\ ~analysis.detected
  /\ consecutiveDetection > 0
  /\ sinceDetection = 200
  /\ binaryBuffer # <<>>

\* C17: the transmitter status is 'Transmission complete' only when the
\* whole play time of the synthesized waveform has passed since the playback
\* was started, never while the waveform is still playing.
C17_CompleteAfterPlayback ==
  txStatus = "Transmission complete" => waveRemaining = 0

\* The same for the transmissions of the second definition of transmitText.
C17_SecondDefinitionWaits ==
  (frame # <<>> /\ txStatus = "Transmission complete") => waveRemaining = 0

\* The window sums of the last snapshot, seven times the windowed energies:
\* the carrier bin and six neighbours.
snapSum0 == dataArray.c0 + 6 * dataArray.w0
snapSum1 == dataArray.c1 + 6 * dataArray.w1

\* C18: a bit is reported only when the peak windowed energy exceeds the
\* absolute floor (30) and the noise level by the margin (15), and the
\* difference of the two energies exceeds the fraction (0.3 of their sum)
\* and the absolute floor (40).  No bit is reported when the two energies are
\* equal, for the all-zero snapshot or for a flat snapshot.
C18_DecisionRule ==
  /\ spectrumResult.detectedBit # <<>>
       => /\ Max(snapSum0, snapSum1) > 7 * 30
          /\ Max(snapSum0, snapSum1) > 7 * (dataArray.n + 15)
          /\ 10 * Abs(snapSum0 - snapSum1) > 3 * (snapSum0 + snapSum1)
          /\ Abs(snapSum0 - snapSum1) > 7 * 40
  /\ snapSum0 = snapSum1 => spectrumResult.detectedBit = <<>>
  /\ dataArray = SilentSnapshot => spectrumResult.detectedBit = <<>>
  /\ (\E v \in 0..255 : dataArray = [c0 |-> v, w0 |-> v, c1 |-> v, w1 |-> v, n |-> v])
       => spectrumResult.detectedBit = <<>>

\* C18 as amended: a bit is reported only when the peak windowed energy
\* exceeds the floor and the noise margin and the difference of the two
\* energies is at least the fraction and at least the absolute floor: where
\* the difference equals a threshold the doubles of the program can differ
\* by a rounding error and a bit is reported.  No bit is reported when the
\* two energies are equal, for the all-zero snapshot or for a flat snapshot.
C18_DecisionAtLeast ==
  /\ spectrumResult.detectedBit # <<>>
       => /\ Max(snapSum0, snapSum1) > 7 * 30
          /\ Max(snapSum0, snapSum1) > 7 * (dataArray.n + 15)
          /\ 10 * Abs(snapSum0 - snapSum1) >= 3 * (snapSum0 + snapSum1)
          /\ Abs(snapSum0 - snapSum1) >= 7 * 40
  /\ snapSum0 = snapSum1 => spectrumResult.detectedBit = <<>>
  /\ dataArray = SilentSnapshot => spectrumResult.detectedBit = <<>>
  /\ (\E v \in 0..255 : dataArray = [c0 |-> v, w0 |-> v, c1 |-> v, w1 |-> v, n |-> v])
       => spectrumResult.detectedBit = <<>>

\* A bit reported on a difference that equals a threshold: 0.3 of the sum
\* (window sums 611 and 329) or the floor of 40 (window sums 170 and 450).
C18_Witness ==
  /\ lastOp = "analyzeSpectrum"
  /\ spectrumResult.detectedBit # <<>>
  /\ \/ 10 * Abs(snapSum0 - snapSum1) = 3 * (snapSum0 + snapSum1)
     \/ Abs(snapSum0 - snapSum1) = 7 * 40

\* C19: a reported bit is '1' exactly when the windowed energy at the bit-1
\* frequency is strictly greater than the one at the bit-0 frequency, and it
\* comes with detected = true.
C19_BitValue ==
  spectrumResult.detectedBit # <<>>
    => /\ spectrumResult.detected
       /\ spectrumResult.detectedBit = <<1>> <=> snapSum1 > snapSum0

C19_Witness ==
  /\ lastOp = "analyzeSpectrum"
  /\ spectrumResult.detectedBit = <<1>>
  /\ dataArray.c0 > dataArray.c1

\* C20: the quality returned for a snapshot is an integer in 0..100 equal to
\* round(diff / maxEnergy * 100) clamped to [0, 100].
C20_QualityScore ==
  (lastOp = "analyzeSpectrum" /\ analyser /\ Max(snapSum0, snapSum1) > 0)
    => /\ spectrumResult.signalQuality \in 0..100
       /\ spectrumResult.signalQuality
            = Min(100, roundDiv(100 * Abs(snapSum0 - snapSum1), Max(snapSum0, snapSum1)))

\* The quality is an integer in 0..100 all the same.
C20_QualityInRange == spectrumResult.signalQuality \in 0..100

\* C21: after a transmission bit i (from 0) of the frame fills exactly the
\* samples [S + i*D, S + (i+1)*D) with the tone of its frequency, S the
\* samples of leading silence and D the samples per symbol; the slots lie
\* inside the buffer, and nothing else is written.
C21_SlotLayout ==
  lastOp = "transmitText"
    => /\ Len(data_buffer.slots) = Len(frame)
       /\ \A j \in 1..Len(frame) :
            data_buffer.slots[j] =
              [from |-> 22050 + (j - 1) * 8820, to |-> 22050 + j * 8820,
               frequency |-> IF frame[j] = 1 THEN 5000 ELSE 2000]
       /\ 22050 + Len(frame) * 8820 <= data_buffer.length

\* What is written of a slot lies in the place C21 gives it, carries its
\* tone and reaches the end of that place; a slot whose start is fractional
\* is written from the first whole index the loop reaches, if at all.
C21_WrittenSlotsInPlace ==
  lastOp = "transmitText"
    => \A j \in 1..Len(frame) :
         /\ data_buffer.slots[j].to = 22050 + j * 8820
         /\ data_buffer.slots[j].from >= 22050 + (j - 1) * 8820
         /\ data_buffer.slots[j].from <= data_buffer.slots[j].to
         /\ data_buffer.slots[j].frequency = IF frame[j] = 1 THEN 5000 ELSE 2000

\* A slot that starts on a fractional index and crosses a power of two is
\* written from that power of two on: bit 12 of a frame starts at
\* 127890 + 1 ulp and is written on [131072, 136710).
C21_PartSlot ==
  /\ lastOp = "transmitText"
  /\ Len(frame) >= 13
  /\ data_buffer.slots[12].from = data_buffer.slots[12].to
  /\ data_buffer.slots[13].from = 131072
  /\ data_buffer.slots[13].to = 136710

\* The character of the k-th whole byte of a bit string.
byteAt(bits, k) ==
  128 * bits[8 * k - 7] + 64 * bits[8 * k - 6] + 32 * bits[8 * k - 5]
    + 16 * bits[8 * k - 4] + 8 * bits[8 * k - 3] + 4 * bits[8 * k - 2]
    + 2 * bits[8 * k - 1] + bits[8 * k]

\* C22: the decoding of a candidate payload has exactly floor(len / 8)
\* characters, the characters of its whole bytes in order; the 1 to 7 bits
\* after the last whole byte give no character.
C22_PayloadTruncation ==
  lastOp = "tryStart"
    => /\ Len(candidate.decoded) = Len(candidate.remaining) \div 8
       /\ \A k \in 1..Len(candidate.decoded) :
            candidate.decoded[k] = byteAt(candidate.remaining, k)

C22_Witness ==
  /\ lastOp = "tryStart"
  /\ Len(candidate.remaining) = 23
  /\ Len(candidate.decoded) = 2

\* The symbols of the played frame whose tone has begun.
symbolsBegun ==
  LET sample == ((waveDuration(frame) - waveRemaining) * 44100) \div 1000
  IN Cardinality({j \in 1..Len(data_buffer.slots) :
                    /\ data_buffer.slots[j].from < data_buffer.slots[j].to
                    /\ data_buffer.slots[j].from <= sample})

\* C23: one symbol, one bit.  While the frame is on the air and nothing has
\* been taken out of the bit buffer, the buffer holds at most one bit for
\* every symbol heard so far, in the framed and in the unframed receiver.
C23_OneBitPerSymbol ==
  (frame # <<>> /\ emitted = <<>> /\ uEmitted = <<>>)
    => /\ Len(binaryBuffer) <= symbolsBegun
       /\ Len(uBuffer) <= symbolsBegun

\* The unframed receiver alone.
C23_UnframedOneBit ==
  (frame # <<>> /\ uEmitted = <<>>) => Len(uBuffer) <= symbolsBegun

\* The framed receiver on the results of analyzeSpectrum: analysis.bit is
\* undefined at every tick, and no bit is appended for any symbol.
C23_FramedHearsNothing == frame # <<>> => binaryBuffer = <<>>

\* C24: consecutive confirmation.  A non-NONE decision that follows another
\* non-NONE decision by less than 150 ms is accepted and its bit appended,
\* whatever the two qualities.
C24_ConsecutiveConfirmation ==
  [][\A a \in Analyses : \A dt \in DtSet :
       (/\ lastOp = "listenLoop"
        /\ analysis.detected /\ analysis.bit # <<>>
        /\ a.detected /\ a.bit # <<>>
        /\ dt < 150
        /\ listenLoop(a, dt))
         => binaryBuffer' = binaryBuffer \o a.bit]_vars

\* C27: status consistency.  The status is 'Listening for signals...' or
\* 'Synchronized - receiving message...' only while the receiver listens,
\* and a stopped receiver keeps the status 'Not listening' until
\* startListening is called again.
C27_StatusConsistency ==
  /\ [](status \in {"Listening for signals...", "Synchronized - receiving message..."}
          => isListening)
  /\ [][(~isListening /\ status = "Not listening"
           /\ lastOp' \notin {"startListeningRequested", "startListening",
                               "startListeningDenied"})
          => status' = "Not listening"]_vars

\* The characters of the whole bytes of bits from the offset start on.
wholeBytesFrom(bits, start) ==
  LET rest == SubSeq(bits, start + 1, Len(bits))
  IN [k \in 1..(Len(rest) \div 8) |-> byteAt(rest, k)]

\* A text of printable ASCII characters, at least one.
printableText(text) ==
  Len(text) > 0 /\ \A k \in 1..Len(text) : text[k] \in 32..126

\* C30: a message emitted by the unframed receiver is not empty; it is the
\* decoding of the whole bytes from some offset 0..8 of the buffer, all
\* printable, the longest such decoding and of these the one at the smallest
\* offset; and the buffer is then the bits after the decoded bytes, fewer
\* than 8.
C30_UnframedEmission ==
  [][uEmitted' # uEmitted =>
       LET buffer == uBuffer \o analysis'.bit
           emittedText == uEmitted'[Len(uEmitted')]
       IN /\ uEmitted' = Append(uEmitted, emittedText)
          /\ emittedText # <<>>
          /\ \E start \in 0..8 :
               /\ wholeBytesFrom(buffer, start) = emittedText
               /\ printableText(emittedText)
               /\ \A other \in 0..8 :
                    printableText(wholeBytesFrom(buffer, other))
                      => \/ Len(wholeBytesFrom(buffer, other)) < Len(emittedText)
                         \/ /\ Len(wholeBytesFrom(buffer, other)) = Len(emittedText)
                            /\ start <= other
               /\ uBuffer' = SubSeq(buffer, start + 8 * Len(emittedText) + 1, Len(buffer))
               /\ Len(uBuffer') < 8]_vars

\* A message was emitted from an offset other than 0 and bits were left.
C30_Witness ==
  /\ lastOp = "listenLoop"
  /\ uEmitted # <<>>
  /\ Len(uEmitted[1]) = 1
  /\ uBuffer # <<>>

\* C29: activity log bound.  The activity log holds at most 10 entries, and
\* they are the most recent entries added since the last clearLog, up to 10,
\* in the order they were added.
C29_ActivityLogBound ==
  /\ Len(activityLog) <= 10
  /\ Len(activityLog) = Min(Len(history), 10)
  /\ \A k \in 1..Len(activityLog) :
       activityLog[k] = history[Len(history) - Len(activityLog) + k]

\* An eleventh entry has been added since the last clearLog, and the entries
\* are not all alike.
C29_Witness ==
  /\ Len(history) = 11
  /\ history[1].type = "error"
  /\ history[2].type = "sent"
  /\ Len(activityLog) = 10

\* C25: one log entry per completion.  Since the transmitter status last
\* became 'Transmission complete', at most one 'sent' entry has been added to
\* the activity log.
C25_OneSentPerCompletion == sentSinceComplete <= 1

\* No status effect is waiting to run.
quiescent == ~txEffectDue /\ ~rxEffectDue

\* C26: quiescence after a receiver error.  Once the receiver status is an
\* error, the application reaches a state in which no status effect is left
\* to run, unless the status is changed before.
C26_QuiescenceAfterError ==
  includesError(status) ~> (quiescent \/ ~includesError(status))

\* C28: at most one transmission in progress.  handleTransmit is never
\* entered while an earlier call has not finished, and it never gets past
\* its guard with a message that is empty or only whitespace.
C28_OneTransmission ==
  /\ [](inProgress <= 1)
  /\ [][inProgress' > inProgress
        => \E i \in 1..Len(message) : message[i] \notin {9, 10, 11, 12, 13, 32}]_vars

\* A transmission is in progress that was started after an earlier one had
\* finished and been logged.
C28_Witness ==
  /\ inProgress = 1
  /\ isTransmitting
  /\ sentSinceComplete > 0

====
